---- MODULE Spec2Model ----
(***************************************************************************)
(* A model of the aggregation / routing engine of mcp-proxy-server:        *)
(* ProxyService (updateBackendConnections, the request handlers, the state  *)
(* export) and the ClientFactory connect loop (createMcpClients).           *)
(*                                                                         *)
(* JavaScript runs one callback at a time; an async function runs without  *)
(* interruption from one await to the next.  Every action below is one such *)
(* run: the code from a call (or from the settling of the awaited promise)  *)
(* up to the next await whose promise is settled by the outside world       *)
(* (a backend's answer, a timer).                                           *)
(***************************************************************************)
EXTENDS Naturals, Sequences, FiniteSets, TLC

(***************************************************************************)
(* Bounds of the model.                                                    *)
(***************************************************************************)
\* How many times updateBackendConnections is called in one behaviour.
MaxReconciles == 2

\* How many backend failures (a failed handshake attempt, a rejected
\* cleanup, a failed discovery call) the outside world produces in one
\* behaviour.
MaxFaults == 3

\* The same, under the routing and the overlap specifications.
MaxRoutingFaults == 1
MaxOverlapFaults == 1
MaxTransports == 2
MaxHttpFaults == 1
\* terminals started, output streams opened, and chunks a pty process emits
MaxTerminals == 1
MaxStreams == 2
MaxChunks == 2
\* TerminalService.ts:9
MAX_BUFFER_LENGTH == 200

\* The callers of updateBackendConnections that may be in flight together
\* (the constructor's initial call, admin reloads).
Procs == {1, 2}

(***************************************************************************)
(* Values.  Strings are TLA+ strings; `a \o b' is string concatenation.    *)
(***************************************************************************)
RECURSIVE SeqToSet(_)
SeqToSet(s) == IF s = <<>> THEN {} ELSE {Head(s)} \cup SeqToSet(Tail(s))

\* Optional fields of a JavaScript object are absent from the record's DOMAIN.
Has(o, f) == f \in DOMAIN o

(***************************************************************************)
(* The backends, as the outside world: what each answers to the discovery  *)
(* calls when it answers at all.                                           *)
(***************************************************************************)
\* Every tool has a schema of its own, so that a listed entry names its tool.
Tool(n, d) == [name |-> n, description |-> d, inputSchema |-> "schema of " \o d]

\* result.tools of client.request({method: 'tools/list'})
BackendTools(name) ==
    CASE name = "a" -> <<Tool("ping", "a ping"), Tool("echo", "a echo")>>
      [] name = "b" -> <<Tool("ping", "b ping")>>
      [] name = "x" -> <<Tool("y--z", "x y--z")>>
      [] name = "x--y" -> <<Tool("z", "x--y z")>>
      [] OTHER      -> <<>>

\* result.resources of client.request({method: 'resources/list'}), the uris
BackendResources(name) ==
    CASE name = "a" -> <<"r1">>
      [] name = "b" -> <<"r1", "r2">>
      [] OTHER      -> <<>>

\* result.prompts of client.request({method: 'prompts/list'}), the names
BackendPrompts(name) ==
    CASE name = "a" -> <<"p1">>
      [] name = "b" -> <<>>
      [] OTHER      -> <<"p1">>

\* result.resourceTemplates of client.request({method:
\* 'resources/templates/list'})
BackendTemplates(name) ==
    CASE name = "a" -> <<[uriTemplate |-> "a://{id}", name |-> "item",
                          description |-> "an item of a"]>>
      [] name = "b" -> <<[uriTemplate |-> "b://{id}", name |-> "item"],
                         [uriTemplate |-> "b://{path}", name |-> "",
                          description |-> ""]>>
      [] OTHER      -> <<>>

(***************************************************************************)
(* Configurations handed to updateBackendConnections.                      *)
(* A server config is the sequence of the entries of config.mcpServers in  *)
(* key order; an entry is [key, type] and, when the JSON sets it, active:  *)
(* a JSON boolean [b |-> ...] or a JSON string [s |-> ...].                 *)
(***************************************************************************)
Server(k) == [key |-> k, type |-> "stdio"]

Inactive(k, v) == [key |-> k, type |-> "stdio", active |-> v]

\* an entry whose type is none of sse, stdio, http
Unknown(k) == [key |-> k, type |-> "pipe"]

\* an sse entry; new URL(url) throws for a url that is none
Sse(k, url) == [key |-> k, type |-> "sse", url |-> url]

CfgAB == <<Server("a"), Server("b")>>
CfgBC == <<Inactive("a", [s |-> "False"]), Server("b"), Unknown("d"),
           Server("c")>>
CfgC  == <<Inactive("b", [b |-> FALSE]), Sse("e", "not a url"), Server("c"),
           Inactive("a", [s |-> "false"])>>

ServerConfigs == {CfgAB, CfgBC, CfgC}

\* a and c, which list the same prompt
CfgCA == <<Server("c"), Server("a")>>

\* the values the active field takes: a is excluded in the last three, b in
\* none
CfgOn    == <<Inactive("a", [b |-> TRUE]), Inactive("b", [s |-> "true"])>>
CfgFalse == <<Inactive("a", [b |-> FALSE]), Inactive("b", [s |-> "no"])>>
CfgLower == <<Inactive("a", [s |-> "false"]), Server("b")>>
CfgUpper == <<Inactive("a", [s |-> "False"]), Inactive("b", [s |-> "True"])>>

\* server keys and tool names that contain the separator
CfgXY == <<Server("x"), Server("x--y")>>
CfgY  == <<Server("x--y")>>

\* A tool config is the object toolConfig.tools: qualified name -> settings.
NoOverrides == [q \in {} |-> [enabled |-> TRUE]]
\* a--ping is disabled; a--echo is exposed as X; the override of b--ping
\* sets both exposed fields to the empty string
DisablePing == ("a--ping" :> [enabled |-> FALSE]) @@
               ("a--echo" :> [enabled |-> TRUE, exposedName |-> "X",
                              exposedDescription |-> "renamed"]) @@
               ("b--ping" :> [exposedName |-> "", exposedDescription |-> ""])
\* the exposed name of a--echo is the qualified name of the enabled a--ping
ShadowPing  == ("a--echo" :> [exposedName |-> "a--ping"])
\* a--ping is disabled and a--echo is exposed under its name
TakeOverPing == ("a--ping" :> [enabled |-> FALSE]) @@
                ("a--echo" :> [exposedName |-> "a--ping"])
\* a--ping and a--echo are exposed under each other's qualified name
SwapNames == ("a--ping" :> [exposedName |-> "a--echo"]) @@
             ("a--echo" :> [exposedName |-> "a--ping"])

ToolConfigs == {NoOverrides, DisablePing, ShadowPing, TakeOverPing}

\* The names a front-end client may pass to call-tool.
RequestNames == {"a--ping", "a--echo", "b--ping", "X"}

(***************************************************************************)
(* ConfigService / ClientFactory helpers.                                  *)
(***************************************************************************)
\* String.prototype.toLowerCase, on the strings the configs hold
ToLowerCase(str) ==
    CASE str = "False" -> "false"
      [] str = "FALSE" -> "false"
      [] str = "True"  -> "true"
      [] OTHER         -> str

\* mcp-proxy.ts:120  !(active === false || String(active).toLowerCase() === 'false')
IsActiveExact(serverConf) ==
    IF ~Has(serverConf, "active") THEN TRUE
    ELSE IF Has(serverConf.active, "b") THEN serverConf.active.b
    ELSE serverConf.active.s # "false"
IsActive(serverConf) ==
    IF ~Has(serverConf, "active") THEN TRUE
    ELSE IF Has(serverConf.active, "b") THEN serverConf.active.b
    ELSE ToLowerCase(serverConf.active.s) # "false"

\* mcp-proxy.ts:116-128
ActiveServersConfig(cfg) == SelectSeq(cfg, IsActive)

\* new URL(url) returns for an absolute url and throws for any other string
ValidUrl(url) == url \in {"http://host/sse", "http://host/mcp"}

\* createClient returns {client, transport} unless the transport type is
\* unknown or its construction throws.
TransportAvailableAlways(serverConf) == TRUE
TransportAvailable(serverConf) ==
    CASE serverConf.type = "stdio"          -> TRUE
      [] serverConf.type \in {"sse", "http"} -> ValidUrl(serverConf.url)
      [] OTHER                              -> FALSE

\* createMcpClients: const retries = 3
retries == 3

\* createMcpClients: const waitFor = 2500 (milliseconds)
waitFor == 2500

\* mcp-proxy.ts:436-437: count++; retry = (count < retries), `count' being
\* the incremented counter
RetryAgainOnceMore(count) == count <= retries
RetryAgain(count) == count < retries

(***************************************************************************)
(* JavaScript Map: insertion-ordered; set() of a present key keeps its     *)
(* place.  A map is a sequence of entries with a `key' field.              *)
(***************************************************************************)
MapHas(m, k) == \E i \in 1..Len(m) : m[i].key = k

MapSet(m, e) ==
    IF MapHas(m, e.key)
    THEN [i \in 1..Len(m) |-> IF m[i].key = e.key THEN e ELSE m[i]]
    ELSE Append(m, e)

MapGet(m, k) == m[CHOOSE i \in 1..Len(m) : m[i].key = k]

MapKeys(m) == {m[i].key : i \in 1..Len(m)}

(***************************************************************************)
(* Aggregation (updateBackendConnections, the discovery loop body).        *)
(***************************************************************************)
\* mcp-proxy.ts:160
QualifiedName(clientName, toolName) == clientName \o "--" \o toolName

\* mcp-proxy.ts:161-162
IsEnabledAlt(toolConfig, qualifiedName) == TRUE
IsEnabledStrict(toolConfig, qualifiedName) ==
    \/ qualifiedName \notin DOMAIN toolConfig
    \/ /\ Has(toolConfig[qualifiedName], "enabled")
       /\ toolConfig[qualifiedName].enabled = TRUE
IsEnabled(toolConfig, qualifiedName) ==
    \/ qualifiedName \notin DOMAIN toolConfig
    \/ ~Has(toolConfig[qualifiedName], "enabled")
    \/ toolConfig[qualifiedName].enabled # FALSE

\* mcp-proxy.ts:158-165: the tools of one answer, registered in order
RECURSIVE RegisterTools(_, _, _, _)
RegisterTools(m, client, tools, toolConfig) ==
    IF tools = <<>> THEN m
    ELSE LET tool == Head(tools)
             q    == QualifiedName(client.name, tool.name)
             m1   == IF IsEnabled(toolConfig, q)
                     THEN MapSet(m, [key |-> q, client |-> client, toolInfo |-> tool])
                     ELSE m
         IN RegisterTools(m1, client, Tail(tools), toolConfig)

\* mcp-proxy.ts:172 and 179: resource uris / prompt names, last writer wins
RECURSIVE RegisterKeysFirstWins(_, _, _)
RegisterKeysFirstWins(m, client, keys) ==
    IF keys = <<>> THEN m
    ELSE RegisterKeysFirstWins(
             IF MapHas(m, Head(keys)) THEN m
             ELSE MapSet(m, [key |-> Head(keys), client |-> client]),
             client, Tail(keys))
RECURSIVE RegisterKeys(_, _, _)
RegisterKeys(m, client, keys) ==
    IF keys = <<>> THEN m
    ELSE RegisterKeys(MapSet(m, [key |-> Head(keys), client |-> client]),
                      client, Tail(keys))

VARIABLES
    currentConnectedClients,  \* ProxyService.currentConnectedClients: sequence of [id, name]
    toolToClientMap,          \* ProxyService.toolToClientMap
    resourceToClientMap,      \* ProxyService.resourceToClientMap
    promptToClientMap,        \* ProxyService.promptToClientMap
    currentToolConfig,        \* ProxyService.currentToolConfig.tools
    pc,                       \* per call of updateBackendConnections: the await it is suspended at
    rc,                       \* per call: its local variables
    nextId,                   \* identity of the next ConnectedClient object created
    cleanupCalls,             \* per ConnectedClient id: how often its cleanup() was invoked
    started,                  \* calls of updateBackendConnections so far
    faults,                   \* backend failures so far
    lg,                       \* per call: what it did (history)
    resp,                     \* the answer of the request handled in this step, or NoResp
    sent,                     \* the requests that handler forwarded to backends
    observed,                 \* the map read by the last request handled while the
                              \* running call of updateBackendConnections was suspended
    sseTransports,            \* HttpService.sseTransports: session id -> transport
    streamableHttpTransports, \* HttpService.streamableHttpTransports: id -> transport
    transports,               \* the transport objects constructed so far, in order
    unregistered,             \* per transport taken out of a registry: by what (history)
    allowedKeys,              \* HttpService.ts:24 allowedKeys
    allowedTokens,            \* HttpService.ts:27 allowedTokens
    activeTerminals,          \* TerminalService.activeTerminals: termId -> terminal
    terminalOutputSseConnections, \* TerminalService.terminalOutputSseConnections:
                              \* termId -> response
    ptyProcesses,             \* the pty processes spawned so far, in order
    sseResponses              \* the responses of GET /:termId/output so far, in order

vars == <<currentConnectedClients, toolToClientMap, resourceToClientMap,
          promptToClientMap, currentToolConfig, pc, rc, nextId, cleanupCalls,
          started, faults, lg, resp, sent, observed,
          sseTransports, streamableHttpTransports, transports, unregistered,
          allowedKeys, allowedTokens,
          activeTerminals, terminalOutputSseConnections, ptyProcesses, sseResponses>>

terminalVars == <<activeTerminals, terminalOutputSseConnections, ptyProcesses,
                  sseResponses>>

httpVars == <<sseTransports, streamableHttpTransports, transports, unregistered,
              allowedKeys, allowedTokens>>

proxyVars == <<currentConnectedClients, toolToClientMap, resourceToClientMap,
               promptToClientMap, currentToolConfig, pc, rc, nextId,
               cleanupCalls, started, faults, lg>>

\* A request handled while a call of updateBackendConnections is suspended
\* leaves a record of the map it read (history).
Observe(kind, map) ==
    observed' = IF \E p \in Procs : pc[p] # "idle"
                THEN [kind |-> kind, map |-> map]
                ELSE observed


(***************************************************************************)
(* updateBackendConnections and createMcpClients as runs between awaits.   *)
(* The runs are written as functions from the locals `l' of the call and   *)
(* the fields `s' of the service to [pc, l, s]: where the call suspends    *)
(* next, and what it has written by then.                                  *)
(***************************************************************************)
IdleLocals ==
    [clientsToRemove |-> <<>>, clientsToKeep |-> <<>>, keysToAdd |-> <<>>,
     idx |-> 0, count |-> 0, clients |-> <<>>, list |-> <<>>, i |-> 0]

Service == [cur |-> currentConnectedClients, tm |-> toolToClientMap,
            rm |-> resourceToClientMap, pm |-> promptToClientMap]

\* mcp-proxy.ts:149-157 and 184-186: publish the connected list, clear the
\* maps, and issue the first discovery call (or finish when no client is
\* connected).
PublishKeepsMaps(l, s) ==
    LET list == l.clientsToKeep \o l.clients
    IN IF list = <<>>
       THEN [pc |-> "idle", l |-> IdleLocals, s |-> [s EXCEPT !.cur = list]]
       ELSE [pc |-> "tools", l |-> [IdleLocals EXCEPT !.list = list, !.i = 1],
             s |-> [s EXCEPT !.cur = list]]
Publish(l, s) ==
    LET list == l.clientsToKeep \o l.clients
        s1   == [cur |-> list, tm |-> <<>>, rm |-> <<>>, pm |-> <<>>]
    IN IF list = <<>>
       THEN [pc |-> "idle", l |-> IdleLocals, s |-> s1]
       ELSE [pc |-> "tools", l |-> [IdleLocals EXCEPT !.list = list, !.i = 1],
             s |-> s1]

\* mcp-proxy.ts:405-421: the head of createMcpClients' for loop at l.idx. A
\* server whose transport is not available is left (break) without an await;
\* for the others client.connect(transport) is called and awaited.
RECURSIVE ConnectLoop(_, _)
ConnectLoop(l, s) ==
    IF l.idx > Len(l.keysToAdd) THEN Publish(l, s)
    ELSE IF ~TransportAvailable(l.keysToAdd[l.idx])
         THEN ConnectLoop([l EXCEPT !.idx = @ + 1], s)
         ELSE [pc |-> "connect", l |-> [l EXCEPT !.count = 0], s |-> s]

\* mcp-proxy.ts:437 and 413: retry is false, the while loop ends and the for
\* loop goes on with the next server.
ExhaustedGivesUp(l, s) == Publish(l, s)
Exhausted(l, s) == ConnectLoop([l EXCEPT !.idx = @ + 1], s)

\* mcp-proxy.ts:143-148
AfterCleanupPublishes(l, s) == Publish([l EXCEPT !.clients = <<>>], s)
AfterCleanup(l, s) ==
    IF Len(l.keysToAdd) > 0
    THEN ConnectLoop([l EXCEPT !.idx = 1, !.clients = <<>>], s)
    ELSE Publish([l EXCEPT !.clients = <<>>], s)

\* mcp-proxy.ts:130-134
ClientsToRemove(cur, active) ==
    SelectSeq(cur, LAMBDA c : \A i \in 1..Len(active) : active[i].key # c.name)
ClientsToKeepNone(cur, active) == <<>>
ClientsToKeep(cur, active) ==
    SelectSeq(cur, LAMBDA c : \E i \in 1..Len(active) : active[i].key = c.name)
KeysToAddAll(cur, active) == active
KeysToAdd(cur, active) ==
    SelectSeq(active, LAMBDA e : \A i \in 1..Len(cur) : cur[i].name # e.key)

\* what one call of updateBackendConnections has done so far (history)
NoLog == [n |-> 0, cfg |-> <<>>, tcfg |-> NoOverrides,
          pre |-> [cur |-> <<>>, tm |-> <<>>, rm |-> <<>>, pm |-> <<>>],
          cleaned |-> <<>>, cleanupFailed |-> {}, attempts |-> <<>>,
          outcomes |-> <<>>, sleeps |-> <<>>, handles |-> <<>>,
          discFailed |-> {}, overlapped |-> FALSE, prev |-> [n |-> 0, cfg |-> <<>>, tcfg |-> NoOverrides,
                                       discFailed |-> {}, done |-> FALSE]]

Install(p, r) ==
    /\ pc' = [pc EXCEPT ![p] = r.pc]
    /\ rc' = [rc EXCEPT ![p] = r.l]
    /\ currentConnectedClients' = r.s.cur
    /\ toolToClientMap' = r.s.tm
    /\ resourceToClientMap' = r.s.rm
    /\ promptToClientMap' = r.s.pm

NoResp == [op |-> "none"]

NoObs == [kind |-> "none"]

Quiet == resp' = NoResp /\ sent' = {} /\ UNCHANGED <<observed, httpVars, terminalVars>>

InitService ==
    /\ currentConnectedClients = <<>>
    /\ toolToClientMap = <<>>
    /\ resourceToClientMap = <<>>
    /\ promptToClientMap = <<>>
    /\ currentToolConfig = NoOverrides
    /\ pc = [p \in Procs |-> "idle"]
    /\ rc = [p \in Procs |-> IdleLocals]
    /\ nextId = 1
    /\ cleanupCalls = <<>>
    /\ started = 0
    /\ faults = 0
    /\ lg = [p \in Procs |-> NoLog]
    /\ resp = NoResp
    /\ sent = {}
    /\ observed = NoObs
    /\ sseTransports = [id \in {} |-> 0]
    /\ streamableHttpTransports = [id \in {} |-> 0]
    /\ transports = <<>>
    /\ unregistered = [t \in {} |-> "none"]
    /\ activeTerminals = [termId \in {} |-> 0]
    /\ terminalOutputSseConnections = [termId \in {} |-> 0]
    /\ ptyProcesses = <<>>
    /\ sseResponses = <<>>

\* The service started with one allowed key and one allowed token in its
\* environment.
Init == InitService /\ allowedKeys = {"k1"} /\ allowedTokens = {"t1"}

\* The service started with any of the environments: no credentials
\* configured, keys only, tokens only, both.
InitAuth ==
    /\ InitService
    /\ allowedKeys \in {{}, {"k1"}}
    /\ allowedTokens \in {{}, {"t1"}}

\* mcp-proxy.ts:110-141 (and on, when nothing is to be removed): the call,
\* both configs in hand, up to its first await. Promise.all(clientsToRemove.map(...)) invokes every
\* cleanup() before the call suspends.
Start(p, cfg, tcfg) ==
    /\ pc[p] = "idle"
    /\ started < MaxReconciles
    /\ LET active == ActiveServersConfig(cfg)
           l == [IdleLocals EXCEPT
                   !.clientsToRemove = ClientsToRemove(currentConnectedClients, active),
                   !.clientsToKeep = ClientsToKeep(currentConnectedClients, active),
                   !.keysToAdd = KeysToAdd(currentConnectedClients, active)]
           removedIds == {c.id : c \in SeqToSet(l.clientsToRemove)}
       IN /\ currentToolConfig' = tcfg
          /\ started' = started + 1
          /\ lg' = [q \in Procs |->
                    IF q # p
                    THEN [lg[q] EXCEPT !.overlapped = @ \/ pc[q] # "idle"]
                    ELSE [NoLog EXCEPT !.n = started + 1, !.cfg = cfg, !.tcfg = tcfg,
                                    !.pre = Service,
                                    !.cleaned = l.clientsToRemove,
                                    !.prev = [n |-> lg[p].n, cfg |-> lg[p].cfg,
                                              tcfg |-> lg[p].tcfg,
                                              discFailed |-> lg[p].discFailed,
                                              done |-> lg[p].n > 0],
                                    !.overlapped = \E r \in Procs : pc[r] # "idle"]]
          /\ cleanupCalls' = [id \in DOMAIN cleanupCalls |->
                                IF id \in removedIds THEN cleanupCalls[id] + 1
                                ELSE cleanupCalls[id]]
          /\ IF Len(l.clientsToRemove) > 0
             THEN Install(p, [pc |-> "cleanup", l |-> l, s |-> Service])
             ELSE Install(p, AfterCleanup(l, Service))
          /\ UNCHANGED <<nextId, faults>>
          /\ resp' = NoResp /\ sent' = {} /\ observed' = NoObs
          /\ UNCHANGED <<httpVars, terminalVars>>

\* mcp-proxy.ts:137-148: every cleanup() has settled; the ones in `failed'
\* rejected, which is logged and nothing more.
CleanupSettledAbort(p, failed) ==
    /\ pc[p] = "cleanup"
    /\ failed \subseteq {c.id : c \in SeqToSet(rc[p].clientsToRemove)}
    /\ faults' = faults + Cardinality(failed)
    /\ lg' = [lg EXCEPT ![p].cleanupFailed = failed]
    /\ IF failed = {} THEN Install(p, AfterCleanup(rc[p], Service))
       ELSE Install(p, [pc |-> "idle", l |-> IdleLocals, s |-> Service])
    /\ UNCHANGED <<currentToolConfig, nextId, cleanupCalls, started>>
    /\ Quiet
\* the same, a rejected cleanup() rejecting the whole call
CleanupSettledThrows(p, failed) ==
    /\ pc[p] = "cleanup"
    /\ failed \subseteq {c.id : c \in SeqToSet(rc[p].clientsToRemove)}
    /\ faults' = faults + Cardinality(failed)
    /\ lg' = [lg EXCEPT ![p].cleanupFailed = failed]
    /\ IF failed = {} THEN Install(p, AfterCleanup(rc[p], Service))
       ELSE Install(p, [pc |-> "thrown", l |-> IdleLocals, s |-> Service])
    /\ UNCHANGED <<currentToolConfig, nextId, cleanupCalls, started>>
    /\ Quiet
CleanupSettled(p, failed) ==
    /\ pc[p] = "cleanup"
    /\ failed \subseteq {c.id : c \in SeqToSet(rc[p].clientsToRemove)}
    /\ faults' = faults + Cardinality(failed)
    /\ lg' = [lg EXCEPT ![p].cleanupFailed = failed]
    /\ Install(p, AfterCleanup(rc[p], Service))
    /\ UNCHANGED <<currentToolConfig, nextId, cleanupCalls, started>>
    /\ Quiet

\* mcp-proxy.ts:434-441: client.close() is called on the client of a failed
\* attempt when another attempt follows
ClosedAfterAttempt(ok, count) == ~ok /\ RetryAgain(count)

\* mcp-proxy.ts:421-432 and 434-437: the awaited client.connect(transport)
\* settles. On success a ConnectedClient is pushed and the for loop goes on;
\* on failure count is incremented and the while loop retries while
\* count < retries.
Handshake(p, ok) ==
    /\ pc[p] = "connect"
    /\ faults' = IF ok THEN faults ELSE faults + 1
    /\ LET l == rc[p]
           key == l.keysToAdd[l.idx].key
           log == [lg EXCEPT ![p].attempts = Append(@, key),
                             ![p].outcomes = Append(@, ok),
                             ![p].handles = Append(@,
                                 [key |-> key, connected |-> ok,
                                  closed |-> ClosedAfterAttempt(ok, l.count + 1)])]
       IN IF ok
          THEN /\ nextId' = nextId + 1
               /\ cleanupCalls' = Append(cleanupCalls, 0)
               /\ lg' = log
               /\ Install(p, ConnectLoop(
                      [l EXCEPT !.clients = Append(@, [id |-> nextId, name |-> key]),
                                !.idx = @ + 1], Service))
          ELSE /\ UNCHANGED <<nextId, cleanupCalls>>
               /\ IF RetryAgain(l.count + 1)
                  THEN /\ lg' = [log EXCEPT ![p].sleeps =
                                     Append(@, [key |-> key, ms |-> waitFor])]
                       /\ Install(p, [pc |-> "sleep", l |-> [l EXCEPT !.count = @ + 1],
                                      s |-> Service])
                  ELSE /\ lg' = log
                       /\ Install(p, Exhausted(l, Service))
    /\ UNCHANGED <<currentToolConfig, started>>
    /\ Quiet

\* mcp-proxy.ts:438-444 and 413-421: client.close() and sleep(waitFor) are
\* over; the while loop creates a new client and calls connect again.
Retry(p) ==
    /\ pc[p] = "sleep"
    /\ Install(p, [pc |-> "connect", l |-> rc[p], s |-> Service])
    /\ UNCHANGED <<currentToolConfig, nextId, cleanupCalls, started, faults, lg>>
    /\ Quiet

\* The answers a backend may give to a discovery call: a result, McpError
\* -32601 (method not found), or any other failure.
Outcomes == {"ok", "notfound", "error"}

DiscoveryFailed(p, kind) ==
    [lg EXCEPT ![p].discFailed = @ \cup {<<rc[p].list[rc[p].i].id, kind>>}]

\* mcp-proxy.ts:157-171: the tools/list of list[i] settles; its enabled tools
\* are registered and resources/list is requested.
ToolsListedSkipsClient(p, outcome) ==
    /\ pc[p] = "tools"
    /\ faults' = IF outcome = "ok" THEN faults ELSE faults + 1
    /\ LET client == rc[p].list[rc[p].i]
           last == rc[p].i = Len(rc[p].list)
       IN /\ toolToClientMap' =
                IF outcome = "ok"
                THEN RegisterTools(toolToClientMap, client,
                                   BackendTools(client.name), currentToolConfig)
                ELSE toolToClientMap
          /\ lg' = IF outcome = "ok" THEN lg ELSE DiscoveryFailed(p, "tools")
          /\ pc' = [pc EXCEPT ![p] = IF outcome = "ok" THEN "resources"
                                     ELSE IF last THEN "idle" ELSE "tools"]
          /\ rc' = [rc EXCEPT ![p] = IF outcome = "ok" THEN rc[p]
                                     ELSE IF last THEN IdleLocals
                                     ELSE [rc[p] EXCEPT !.i = @ + 1]]
    /\ UNCHANGED <<currentConnectedClients, resourceToClientMap, promptToClientMap,
                   currentToolConfig, nextId, cleanupCalls, started>>
    /\ Quiet
ToolsListed(p, outcome) ==
    /\ pc[p] = "tools"
    /\ faults' = IF outcome = "ok" THEN faults ELSE faults + 1
    /\ LET client == rc[p].list[rc[p].i]
       IN /\ toolToClientMap' =
                IF outcome = "ok"
                THEN RegisterTools(toolToClientMap, client,
                                   BackendTools(client.name), currentToolConfig)
                ELSE toolToClientMap
          /\ lg' = IF outcome = "ok" THEN lg ELSE DiscoveryFailed(p, "tools")
    /\ pc' = [pc EXCEPT ![p] = "resources"]
    /\ UNCHANGED <<currentConnectedClients, resourceToClientMap, promptToClientMap,
                   currentToolConfig, rc, nextId, cleanupCalls, started>>
    /\ Quiet

\* mcp-proxy.ts:171-178: the resources/list of list[i] settles.
ResourcesListed(p, outcome) ==
    /\ pc[p] = "resources"
    /\ faults' = IF outcome = "ok" THEN faults ELSE faults + 1
    /\ LET client == rc[p].list[rc[p].i]
       IN /\ resourceToClientMap' =
                IF outcome = "ok"
                THEN RegisterKeys(resourceToClientMap, client,
                                  BackendResources(client.name))
                ELSE resourceToClientMap
          /\ lg' = IF outcome = "ok" THEN lg ELSE DiscoveryFailed(p, "resources")
    /\ pc' = [pc EXCEPT ![p] = "prompts"]
    /\ UNCHANGED <<currentConnectedClients, toolToClientMap, promptToClientMap,
                   currentToolConfig, rc, nextId, cleanupCalls, started>>
    /\ Quiet

\* mcp-proxy.ts:178-186: the prompts/list of list[i] settles; the loop goes
\* on to the next client's tools/list, or the call returns.
PromptsListed(p, outcome) ==
    /\ pc[p] = "prompts"
    /\ faults' = IF outcome = "ok" THEN faults ELSE faults + 1
    /\ LET client == rc[p].list[rc[p].i]
           last == rc[p].i = Len(rc[p].list)
       IN /\ promptToClientMap' =
                IF outcome = "ok"
                THEN RegisterKeys(promptToClientMap, client,
                                  BackendPrompts(client.name))
                ELSE promptToClientMap
          /\ lg' = IF outcome = "ok" THEN lg ELSE DiscoveryFailed(p, "prompts")
          /\ pc' = [pc EXCEPT ![p] = IF last THEN "idle" ELSE "tools"]
          /\ rc' = [rc EXCEPT ![p] = IF last THEN IdleLocals
                                     ELSE [rc[p] EXCEPT !.i = @ + 1]]
    /\ UNCHANGED <<currentConnectedClients, toolToClientMap, resourceToClientMap,
                   currentToolConfig, nextId, cleanupCalls, started>>
    /\ Quiet

(***************************************************************************)
(* The request handlers.  They read the service's fields and write none;   *)
(* `resp' is what the handler returns or throws and `sent' what it forwards.*)
(***************************************************************************)
\* mcp-proxy.ts:209 and 223: overrideSettings?.exposedName || key
ExposedName(toolConfig, key) ==
    IF key \in DOMAIN toolConfig /\ Has(toolConfig[key], "exposedName")
       /\ toolConfig[key].exposedName # ""
    THEN toolConfig[key].exposedName
    ELSE key

\* mcp-proxy.ts:210
ExposedDescriptionBackend(toolConfig, key, toolInfo) == toolInfo.description
ExposedDescription(toolConfig, key, toolInfo) ==
    IF key \in DOMAIN toolConfig /\ Has(toolConfig[key], "exposedDescription")
       /\ toolConfig[key].exposedDescription # ""
    THEN toolConfig[key].exposedDescription
    ELSE toolInfo.description

\* mcp-proxy.ts:203-215
ListToolsResult ==
    [i \in 1..Len(toolToClientMap) |->
        [name |-> ExposedName(currentToolConfig, toolToClientMap[i].key),
         description |-> ExposedDescription(currentToolConfig, toolToClientMap[i].key,
                                            toolToClientMap[i].toolInfo),
         inputSchema |-> toolToClientMap[i].toolInfo.inputSchema]]

\* mcp-proxy.ts:222-227: the indexes of the entries whose exposed name is the
\* requested one; the loop stops at the first.
MatchesAlsoKey(name) ==
    {i \in 1..Len(toolToClientMap) :
        \/ ExposedName(currentToolConfig, toolToClientMap[i].key) = name
        \/ toolToClientMap[i].key = name}
Matches(name) ==
    {i \in 1..Len(toolToClientMap) :
        ExposedName(currentToolConfig, toolToClientMap[i].key) = name}

Resolve(name) ==
    toolToClientMap[CHOOSE i \in Matches(name) : \A j \in Matches(name) : i <= j]

\* mcp-proxy.ts:230-233: the request forwarded for a resolved entry
ForwardQualified(entry) ==
    {[to |-> entry.client, method |-> "tools/call", name |-> entry.key]}
Forward(entry) ==
    {[to |-> entry.client, method |-> "tools/call", name |-> entry.toolInfo.name]}

\* mcp-proxy.ts:203-215
HandleListTools ==
    /\ resp' = [op |-> "tools/list", tools |-> ListToolsResult]
    /\ sent' = {}
    /\ UNCHANGED <<proxyVars, httpVars, terminalVars>>

\* mcp-proxy.ts:217-234
HandleCallTool(name) ==
    /\ IF Matches(name) = {}
       THEN /\ resp' = [op |-> "tools/call", name |-> name, error |-> "UnknownTool"]
            /\ sent' = {}
       ELSE /\ resp' = [op |-> "tools/call", name |-> name, key |-> Resolve(name).key]
            /\ sent' = Forward(Resolve(name))
    /\ UNCHANGED <<proxyVars, httpVars, terminalVars>>

\* mcp-proxy.ts:190: _c?.name || 'Unknown'
ServerName(client) == IF client.name # "" THEN client.name ELSE "Unknown"

\* mcp-proxy.ts:188-193
ProxyState ==
    [i \in 1..Len(toolToClientMap) |->
        [name |-> toolToClientMap[i].toolInfo.name,
         serverName |-> ServerName(toolToClientMap[i].client),
         description |-> toolToClientMap[i].toolInfo.description]]

\* part_000:186-196 and mcp-proxy.ts:188-193: GET /admin/tools/list
HandleProxyState ==
    /\ resp' = [op |-> "state", tools |-> ProxyState]
    /\ sent' = {}
    /\ UNCHANGED <<proxyVars, httpVars, terminalVars>>

\* The params of the get-prompt and read-resource requests of front-end
\* clients.
PromptParams == {[name |-> n, arguments |-> "args"] : n \in {"p1", "p9"}}

ResourceParams == {[uri |-> u] : u \in {"r1", "r2", "r9"}}

\* mcp-proxy.ts:239-241 and 261-263: the request forwarded with the params
\* of the incoming one
ForwardParamsBare(client, method, params) ==
    {[to |-> client, method |-> method,
      params |-> [f \in DOMAIN params \ {"arguments"} |-> params[f]]]}
ForwardParams(client, method, params) ==
    {[to |-> client, method |-> method, params |-> params]}

\* mcp-proxy.ts:236-242
HandleGetPrompt(params) ==
    /\ IF ~MapHas(promptToClientMap, params.name)
       THEN /\ resp' = [op |-> "prompts/get", params |-> params,
                        error |-> "UnknownPrompt"]
            /\ sent' = {}
       ELSE /\ resp' = [op |-> "prompts/get", params |-> params]
            /\ sent' = ForwardParams(MapGet(promptToClientMap, params.name).client,
                                     "prompts/get", params)
    /\ UNCHANGED <<proxyVars, httpVars, terminalVars>>

\* mcp-proxy.ts:258-264
HandleReadResource(params) ==
    /\ IF ~MapHas(resourceToClientMap, params.uri)
       THEN /\ resp' = [op |-> "resources/read", params |-> params,
                        error |-> "UnknownResource"]
            /\ sent' = {}
       ELSE /\ resp' = [op |-> "resources/read", params |-> params]
            /\ sent' = ForwardParams(MapGet(resourceToClientMap, params.uri).client,
                                     "resources/read", params)
    /\ UNCHANGED <<proxyVars, httpVars, terminalVars>>

\* mcp-proxy.ts:244-249
ListPromptsResult ==
    [i \in 1..Len(promptToClientMap) |->
        [name |-> promptToClientMap[i].key,
         description |-> "[" \o promptToClientMap[i].client.name \o "] Prompt"]]

HandleListPrompts ==
    /\ resp' = [op |-> "prompts/list", prompts |-> ListPromptsResult]
    /\ sent' = {}
    /\ UNCHANGED <<proxyVars, httpVars, terminalVars>>

\* mcp-proxy.ts:251-256
ListResourcesResult ==
    [i \in 1..Len(resourceToClientMap) |->
        [uri |-> resourceToClientMap[i].key,
         name |-> "[" \o resourceToClientMap[i].client.name \o "] Resource"]]

HandleListResources ==
    /\ resp' = [op |-> "resources/list", resources |-> ListResourcesResult]
    /\ sent' = {}
    /\ UNCHANGED <<proxyVars, httpVars, terminalVars>>

\* mcp-proxy.ts:275-278: a backend's template as the proxy returns it
PrefixTemplate(clientName, template) ==
    LET described == Has(template, "description") /\ template.description # ""
        fields == (DOMAIN template \ {"description"})
                      \cup (IF described THEN {"description"} ELSE {})
    IN [f \in fields |->
           CASE f = "name" -> "[" \o clientName \o "] " \o template.name
             [] f = "description" -> "[" \o clientName \o "] " \o template.description
             [] OTHER -> template[f]]

\* mcp-proxy.ts:268-284: the loop over the connected list; outcome[i] is how
\* the request to the i-th backend settles, and a failure of either kind
\* adds nothing
RECURSIVE CollectTemplatesAbort(_, _, _)
CollectTemplatesAbort(list, outcome, i) ==
    IF i > Len(list) \/ outcome[i] # "ok" THEN <<>>
    ELSE [j \in 1..Len(BackendTemplates(list[i].name)) |->
             PrefixTemplate(list[i].name, BackendTemplates(list[i].name)[j])]
         \o CollectTemplatesAbort(list, outcome, i + 1)
RECURSIVE CollectTemplates(_, _, _)
CollectTemplates(list, outcome, i) ==
    IF i > Len(list) THEN <<>>
    ELSE (IF outcome[i] = "ok"
          THEN [j \in 1..Len(BackendTemplates(list[i].name)) |->
                   PrefixTemplate(list[i].name, BackendTemplates(list[i].name)[j])]
          ELSE <<>>)
         \o CollectTemplates(list, outcome, i + 1)

\* params of a resources/templates/list request: with a cursor, and without
TemplateParams == {[cursor |-> "c1"], [f \in {} |-> ""]}

\* mcp-proxy.ts:266-286: the handler reads the connected list once, when the
\* loop starts, and writes no field of the service.
HandleListResourceTemplates(params, outcome) ==
    /\ resp' = [op |-> "resources/templates/list", outcome |-> outcome,
                resourceTemplates |-> CollectTemplates(currentConnectedClients,
                                                       outcome, 1),
                nextCursor |-> IF Has(params, "cursor") THEN params.cursor
                               ELSE "undefined"]
    /\ sent' = {[to |-> currentConnectedClients[i],
                 method |-> "resources/templates/list", params |-> params] :
                    i \in 1..Len(currentConnectedClients)}
    /\ UNCHANGED <<proxyVars, httpVars, terminalVars>>

(***************************************************************************)
(* HttpService (services/HttpService.ts): the event-stream endpoint        *)
(* /sse with its message endpoint /message, the request/response-stream    *)
(* endpoint /mcp, and the two session registries.  A step runs a handler   *)
(* from the request, the settled promise or the transport's event to its   *)
(* next await.                                                             *)
(***************************************************************************)
\* The sessionId of a transport the SDK has given none yet; the session id
\* of a request that carries none.
Undefined == <<"undefined", 0>>

\* crypto.randomUUID() for the t-th transport constructed: the sessionId of
\* an SSEServerTransport, the result of sessionIdGenerator
Uuid(t) == <<"uuid", t>>

\* HttpService.ts:218 tempGeneratedIdForEarlyMap
TempId(t) == <<"pending-mcp", t>>

\* A session id the service never handed out.
Stranger == Uuid(0)

\* Map.delete, Map.set and Map.get (0 for undefined) on a registry
SessionDelete(reg, id) == [k \in DOMAIN reg \ {id} |-> reg[k]]

SessionSet(reg, id, t) ==
    [k \in DOMAIN reg \cup {id} |-> IF k = id THEN t ELSE reg[k]]

SessionGet(reg, id) == IF id \in DOMAIN reg THEN reg[id] ELSE 0

\* new SSEServerTransport(...) / new StreamableHTTPServerTransport(...):
\* `initialize' holds the body of the request that constructs it until the
\* handler passes it on (HttpService.ts:291).
NewTransport(kind, sessionId, initialize) ==
    [kind |-> kind, sessionId |-> sessionId, connect |-> "pending",
     closed |-> FALSE, initialize |-> initialize]

\* The transports that a registry maps some id to.
Registered(sse, mcp) ==
    {sse[id] : id \in DOMAIN sse} \cup {mcp[id] : id \in DOMAIN mcp}

\* A step of HttpService: the registries and transports it leaves, the cause
\* recorded for the transports it takes out of the registries, its answer.
HttpStep(sse, mcp, trs, cause, answer) ==
    /\ sseTransports' = sse
    /\ streamableHttpTransports' = mcp
    /\ transports' = trs
    /\ unregistered' =
          LET gone == Registered(sseTransports, streamableHttpTransports)
                          \ Registered(sse, mcp)
          IN [t \in DOMAIN unregistered \cup gone |->
                 IF t \in DOMAIN unregistered THEN unregistered[t] ELSE cause]
    /\ resp' = answer
    /\ sent' = {}
    /\ UNCHANGED <<proxyVars, observed, allowedKeys, allowedTokens, terminalVars>>

\* HttpService.ts:70-98 and 167-195: `authenticated' is false for a request
\* without valid credentials while authentication is enabled.
\* String.prototype.trim on a string given as the sequence of its pieces
RECURSIVE TrimStart(_)
TrimStart(str) ==
    IF str # <<>> /\ Head(str) = " " THEN TrimStart(Tail(str)) ELSE str

RECURSIVE TrimEnd(_)
TrimEnd(str) ==
    IF str # <<>> /\ str[Len(str)] = " "
    THEN TrimEnd(SubSeq(str, 1, Len(str) - 1))
    ELSE str

Trim(str) == TrimEnd(TrimStart(str))

\* the pieces of a string, joined
RECURSIVE Join(_)
Join(str) == IF str = <<>> THEN "" ELSE Head(str) \o Join(Tail(str))

\* HttpService.ts:73-74 and 170-171: authHeader.startsWith('Bearer ') and
\* authHeader.substring('Bearer '.length).trim(); a header is the sequence of
\* its pieces, <<>> when the request has none
StartsWithBearer(authHeader) == authHeader # <<>> /\ Head(authHeader) = "Bearer "

BearerToken(authHeader) == Join(Trim(Tail(authHeader)))

\* HttpService.ts:85 and 182: headerKey || queryKey ("" for a missing one)
ProvidedKey(req) == IF req.headerKey # "" THEN req.headerKey ELSE req.queryKey

\* HttpService.ts:29
AuthEnabled(keys, tokens) == keys # {} \/ tokens # {}

\* HttpService.ts:70-98 and 167-195: whether the request passes the
\* authentication block
AuthenticatedAnyKey(keys, tokens, req) ==
    \/ ~AuthEnabled(keys, tokens)
    \/ StartsWithBearer(req.authorization)
          /\ BearerToken(req.authorization) \in tokens
    \/ keys # {} /\ ProvidedKey(req) # ""
Authenticated(keys, tokens, req) ==
    \/ ~AuthEnabled(keys, tokens)
    \/ StartsWithBearer(req.authorization)
          /\ BearerToken(req.authorization) \in tokens
    \/ keys # {} /\ ProvidedKey(req) # "" /\ ProvidedKey(req) \in keys

\* The authorization headers, x-api-key headers and key query parameters of
\* the requests.
Request(authorization, headerKey, queryKey) ==
    [authorization |-> authorization, headerKey |-> headerKey, queryKey |-> queryKey]

Requests ==
    {Request(<<>>, "", ""),
     Request(<<"Bearer ", " ", "t1", " ">>, "", ""),
     Request(<<"Bearer ", "bad">>, "", "bad"),
     Request(<<"Basic ", "t1">>, "", ""),
     Request(<<"Bearer ", "k1">>, "t1", ""),
     Request(<<>>, "", "k1"),
     Request(<<>>, "bad", "k1")}

Unauthorized(op) ==
    HttpStep(sseTransports, streamableHttpTransports, transports, "none",
             [op |-> op, status |-> 401])

\* transport.close(): the stream is ended and the transport's onclose runs,
\* which finds its id deleted already (HttpService.ts:108, 152).
CloseTransportSkipped(trs, t) == trs
CloseTransport(trs, t) == IF t = 0 THEN trs ELSE [trs EXCEPT ![t].closed = TRUE]

\* HttpService.ts:130-132, 138-140 and 151-153
SseRemoveNothing(reg, id) == reg
SseRemove(reg, id) == IF id \in DOMAIN reg THEN SessionDelete(reg, id) ELSE reg

\* HttpService.ts:66-145: GET /sse up to the await of connect
HandleSse(claimed, authenticated) ==
    IF ~authenticated THEN Unauthorized("GET /sse")
    ELSE /\ Len(transports) < MaxTransports
         /\ LET t == Len(transports) + 1
                existing == SessionGet(sseTransports, claimed)
                reg == SseRemove(sseTransports, claimed)
            IN HttpStep(SessionSet(reg, Uuid(t), t), streamableHttpTransports,
                        Append(CloseTransport(transports, existing),
                               NewTransport("sse", Uuid(t), FALSE)),
                        "replaced",
                        [op |-> "GET /sse", status |-> 200, claimed |-> claimed,
                         t |-> t])

\* HttpService.ts:145-160: connect settled
SseConnectSettled(t, ok) ==
    /\ t \in 1..Len(transports)
    /\ transports[t].kind = "sse"
    /\ transports[t].connect = "pending"
    /\ IF ok
       THEN HttpStep(sseTransports, streamableHttpTransports,
                     [transports EXCEPT ![t].connect = "connected"], "none",
                     [op |-> "sse connected", t |-> t])
       ELSE HttpStep(SseRemove(sseTransports, transports[t].sessionId),
                     streamableHttpTransports,
                     CloseTransport([transports EXCEPT ![t].connect = "failed"], t),
                     "connect",
                     [op |-> "sse connect failed", t |-> t])

\* HttpService.ts:128-134
SseOnError(t) ==
    /\ t \in 1..Len(transports)
    /\ transports[t].kind = "sse"
    /\ ~transports[t].closed
    /\ HttpStep(SseRemove(sseTransports, transports[t].sessionId),
                streamableHttpTransports, transports, "error",
                [op |-> "sse onerror", t |-> t])

\* HttpService.ts:136-142: the client went away
SseOnClose(t) ==
    /\ t \in 1..Len(transports)
    /\ transports[t].kind = "sse"
    /\ ~transports[t].closed
    /\ HttpStep(SseRemove(sseTransports, transports[t].sessionId),
                streamableHttpTransports, CloseTransport(transports, t), "close",
                [op |-> "sse onclose", t |-> t])

\* HttpService.ts:305-334: POST /message; `threw' is the outcome of
\* handlePostMessage
HandleMessage(sessionId, threw) ==
    LET transport == SessionGet(sseTransports, sessionId)
    IN HttpStep(sseTransports, streamableHttpTransports, transports, "none",
                [op |-> "POST /message", sessionId |-> sessionId,
                 status |-> IF sessionId = Undefined THEN 400
                            ELSE IF transport = 0 THEN 404
                            ELSE IF threw THEN 500 ELSE 202,
                 handledBy |-> IF sessionId = Undefined THEN 0 ELSE transport])

\* HttpService.ts:224-241: onsessioninitialized of the transport t
OnSessionInitializedKeepsTemp(reg, t) == SessionSet(reg, Uuid(t), t)
OnSessionInitialized(reg, t) ==
    IF SessionGet(reg, TempId(t)) = t
    THEN SessionSet(SessionDelete(reg, TempId(t)), Uuid(t), t)
    ELSE IF Uuid(t) \notin DOMAIN reg \/ reg[Uuid(t)] # t
         THEN SessionSet(reg, Uuid(t), t)
         ELSE reg

\* transport.handleRequest(req, res, req.body): an initialize request to a
\* transport that is open and has no session yet gives it its session id and
\* fires onsessioninitialized before handleRequest returns.
Initializes(trs, t, initialize) ==
    initialize /\ trs[t].sessionId = Undefined /\ ~trs[t].closed

HandleRequestRegistry(reg, trs, t, initialize) ==
    IF Initializes(trs, t, initialize) THEN OnSessionInitialized(reg, t) ELSE reg

HandleRequestTransports(trs, t, initialize) ==
    IF Initializes(trs, t, initialize)
    THEN [trs EXCEPT ![t].sessionId = Uuid(t)]
    ELSE trs

\* HttpService.ts:201-203
McpNotFoundNever(reg, provided) == FALSE
McpNotFound(reg, provided) == SessionGet(reg, provided) = 0

\* HttpService.ts:254-255 and 261-262
McpRemove(reg, trs, t) ==
    LET reg1 == IF SessionGet(reg, TempId(t)) = t
                THEN SessionDelete(reg, TempId(t)) ELSE reg
        sessionId == trs[t].sessionId
    IN IF sessionId # Undefined /\ SessionGet(reg1, sessionId) = t
       THEN SessionDelete(reg1, sessionId)
       ELSE reg1

\* HttpService.ts:163-303: a request to /mcp up to its first await that
\* another step settles; `initialize' says whether its body is an initialize
\* request
HandleMcp(provided, authenticated, initialize) ==
    IF ~authenticated THEN Unauthorized("/mcp")
    ELSE IF provided # Undefined
    THEN IF McpNotFound(streamableHttpTransports, provided)
         THEN HttpStep(sseTransports, streamableHttpTransports, transports, "none",
                       [op |-> "/mcp", status |-> 404, provided |-> provided,
                        t |-> 0, handledBy |-> 0])
         ELSE LET t == SessionGet(streamableHttpTransports, provided)
              IN IF t = 0
                 THEN HttpStep(sseTransports, streamableHttpTransports, transports,
                               "none",
                               [op |-> "/mcp", status |-> 500, provided |-> provided,
                                t |-> 0, handledBy |-> 0])
                 ELSE HttpStep(sseTransports,
                               HandleRequestRegistry(streamableHttpTransports,
                                                     transports, t, initialize),
                               HandleRequestTransports(transports, t, initialize),
                               "none",
                               [op |-> "/mcp", status |-> 200,
                                provided |-> provided, t |-> 0, handledBy |-> t])
    ELSE /\ Len(transports) < MaxTransports
         /\ LET t == Len(transports) + 1
            IN HttpStep(sseTransports,
                        SessionSet(streamableHttpTransports, TempId(t), t),
                        Append(transports, NewTransport("http", Undefined, initialize)),
                        "none",
                        [op |-> "/mcp", status |-> 0, provided |-> provided,
                         t |-> t, handledBy |-> 0])

\* HttpService.ts:266-303: connect settled, and on success the request that
\* constructed the transport is handed to it (what handleRequest answers is
\* the transport's business)
McpConnectSettled(t, ok) ==
    /\ t \in 1..Len(transports)
    /\ transports[t].kind = "http"
    /\ transports[t].connect = "pending"
    /\ IF ok
       THEN LET trs == [transports EXCEPT ![t].connect = "connected",
                                          ![t].initialize = FALSE]
                initialize == transports[t].initialize
            IN HttpStep(sseTransports,
                        HandleRequestRegistry(streamableHttpTransports, trs, t,
                                              initialize),
                        HandleRequestTransports(trs, t, initialize),
                        "none",
                        [op |-> "/mcp connected", status |-> 200, t |-> t])
       ELSE HttpStep(sseTransports,
                     SessionDelete(streamableHttpTransports, TempId(t)),
                     [transports EXCEPT ![t].connect = "failed",
                                        ![t].initialize = FALSE],
                     "connect",
                     [op |-> "/mcp connect failed", status |-> 500, t |-> t])

\* HttpService.ts:251-257
McpOnError(t) ==
    /\ t \in 1..Len(transports)
    /\ transports[t].kind = "http"
    /\ ~transports[t].closed
    /\ HttpStep(sseTransports, McpRemove(streamableHttpTransports, transports, t),
                transports, "error", [op |-> "mcp onerror", t |-> t])

\* HttpService.ts:258-264
McpOnClose(t) ==
    /\ t \in 1..Len(transports)
    /\ transports[t].kind = "http"
    /\ ~transports[t].closed
    /\ HttpStep(sseTransports, McpRemove(streamableHttpTransports, transports, t),
                CloseTransport(transports, t), "close",
                [op |-> "mcp onclose", t |-> t])

\* The session ids a request can carry: none, one the service never handed
\* out, and the ids the transports constructed so far have or had.
SessionIds ==
    {Undefined, Stranger} \cup {Uuid(t) : t \in 1..Len(transports)}

PendingIds == {TempId(t) : t \in {u \in 1..Len(transports) : transports[u].kind = "http"}}

\* The transports hit so far by an error, a disconnect or a failed connect.
HttpFaults(trs, unreg) ==
    Cardinality({t \in 1..Len(trs) :
                    \/ trs[t].connect = "failed"
                    \/ t \in DOMAIN unreg /\ unreg[t] # "replaced"
                    \/ trs[t].closed /\ t \notin DOMAIN unreg})

Budget == HttpFaults(transports', unregistered') <= MaxHttpFaults

\* The event-stream endpoint and its message endpoint, with transport
\* errors, disconnects and failed connects.
NextSse ==
    \/ \E claimed \in SessionIds : HandleSse(claimed, TRUE)
    \/ HandleSse(Undefined, FALSE)
    \/ \E t \in 1..MaxTransports, ok \in BOOLEAN : SseConnectSettled(t, ok) /\ Budget
    \/ \E t \in 1..MaxTransports : SseOnError(t) /\ Budget
    \/ \E t \in 1..MaxTransports : SseOnClose(t) /\ Budget
    \/ \E sessionId \in SessionIds, threw \in BOOLEAN : HandleMessage(sessionId, threw)

SpecSse == Init /\ [][NextSse]_vars

\* The request/response-stream endpoint, with transport errors, closes and
\* failed connects.
NextMcp ==
    \/ \E provided \in SessionIds \cup PendingIds, initialize \in BOOLEAN :
          HandleMcp(provided, TRUE, initialize)
    \/ HandleMcp(Undefined, FALSE, FALSE)
    \/ \E t \in 1..MaxTransports, ok \in BOOLEAN : McpConnectSettled(t, ok) /\ Budget
    \/ \E t \in 1..MaxTransports : McpOnError(t) /\ Budget
    \/ \E t \in 1..MaxTransports : McpOnClose(t) /\ Budget

SpecMcp == Init /\ [][NextMcp]_vars

\* The same with the scheduling of the service: a connect that is awaited
\* settles, and the handler goes on. Requests, errors and disconnects are
\* the clients' and the network's to bring or not.
McpConnectSettles ==
    \E t \in 1..MaxTransports, ok \in BOOLEAN : McpConnectSettled(t, ok) /\ Budget

SpecMcpLive == Init /\ [][NextMcp]_vars /\ WF_vars(McpConnectSettles)

(***************************************************************************)
(* TerminalService: the terminals, their output streams and the events of  *)
(* the pty processes and of the streams' requests.  A termId is the place  *)
(* of the terminal's pty process among the processes spawned so far, a     *)
(* response the place of a ServerResponse among those of GET               *)
(* /:termId/output.                                                        *)
(***************************************************************************)
TerminalStep(terminals, connections, ptys, responses, answer) ==
    /\ activeTerminals' = terminals
    /\ terminalOutputSseConnections' = connections
    /\ ptyProcesses' = ptys
    /\ sseResponses' = responses
    /\ resp' = answer
    /\ sent' = {}
    /\ UNCHANGED <<proxyVars, observed, httpVars>>

\* res.write of the events given, in order
Write(responses, r, events) == [responses EXCEPT ![r].written = @ \o events]

\* res.end()
End(responses, r) ==
    IF r = 0 THEN responses ELSE [responses EXCEPT ![r].writableEnded = TRUE]

OutputEvents(buffer) == [i \in 1..Len(buffer) |-> <<"output", buffer[i]>>]

\* TerminalService.ts:80-83: push, and shift when the buffer is over
\* MAX_BUFFER_LENGTH
Buffered(buffer, data) ==
    LET pushed == Append(buffer, data)
    IN IF Len(pushed) > MAX_BUFFER_LENGTH THEN Tail(pushed) ELSE pushed

\* TerminalService.ts:151-160 and 49-69: POST /start
HandleStartTerminal ==
    /\ Len(ptyProcesses) < MaxTerminals
    /\ LET termId == Len(ptyProcesses) + 1
       IN TerminalStep(SessionSet(activeTerminals, termId,
                                  [id |-> termId, initialOutputBuffer |-> <<>>]),
                       terminalOutputSseConnections,
                       Append(ptyProcesses, [alive |-> TRUE, emitted |-> 0]),
                       sseResponses,
                       [op |-> "POST /start", status |-> 200, id |-> termId])

\* TerminalService.ts:71-85: ptyProcess.onData
PtyOnData(termId) ==
    /\ termId \in 1..Len(ptyProcesses)
    /\ ptyProcesses[termId].alive
    /\ ptyProcesses[termId].emitted < MaxChunks
    /\ LET data == ptyProcesses[termId].emitted + 1
           ptys == [ptyProcesses EXCEPT ![termId].emitted = data]
           buffer == activeTerminals[termId].initialOutputBuffer
           sseRes == SessionGet(terminalOutputSseConnections, termId)
       IN IF sseRes # 0 /\ ~sseResponses[sseRes].writableEnded
          THEN TerminalStep(
                  [activeTerminals EXCEPT ![termId].initialOutputBuffer = <<>>],
                  terminalOutputSseConnections, ptys,
                  Write(sseResponses, sseRes, OutputEvents(Append(buffer, data))),
                  [op |-> "pty data", termId |-> termId, data |-> data,
                   to |-> sseRes])
          ELSE TerminalStep(
                  [activeTerminals EXCEPT
                      ![termId].initialOutputBuffer = Buffered(buffer, data)],
                  terminalOutputSseConnections, ptys, sseResponses,
                  [op |-> "pty data", termId |-> termId, data |-> data, to |-> 0])

\* TerminalService.ts:87-99: ptyProcess.onExit
PtyOnExit(termId) ==
    /\ termId \in 1..Len(ptyProcesses)
    /\ ptyProcesses[termId].alive
    /\ LET sseRes == SessionGet(terminalOutputSseConnections, termId)
           live == sseRes # 0 /\ ~sseResponses[sseRes].writableEnded
       IN TerminalStep(SessionDelete(activeTerminals, termId),
                       SessionDelete(terminalOutputSseConnections, termId),
                       [ptyProcesses EXCEPT ![termId].alive = FALSE],
                       IF live
                       THEN End(Write(sseResponses, sseRes, <<<<"exit", 0>>>>), sseRes)
                       ELSE sseResponses,
                       [op |-> "pty exit", termId |-> termId])

\* TerminalService.ts:242-245: the listener of the request's close event
OnClose(connections, termId, r) == SessionDelete(connections, termId)

\* TerminalService.ts:205-246: GET /:termId/output
HandleTerminalOutputSse(termId) ==
    IF termId \notin DOMAIN activeTerminals
    THEN TerminalStep(activeTerminals, terminalOutputSseConnections, ptyProcesses,
                      sseResponses,
                      [op |-> "GET /output", status |-> 404, termId |-> termId])
    ELSE /\ Len(sseResponses) < MaxStreams
         /\ LET res == Len(sseResponses) + 1
                oldSseRes == SessionGet(terminalOutputSseConnections, termId)
                buffer == activeTerminals[termId].initialOutputBuffer
            IN TerminalStep(
                  [activeTerminals EXCEPT ![termId].initialOutputBuffer = <<>>],
                  SessionSet(SessionDelete(terminalOutputSseConnections, termId),
                             termId, res),
                  ptyProcesses,
                  Append(End(sseResponses, oldSseRes),
                         [termId |-> termId, writableEnded |-> FALSE,
                          closed |-> FALSE,
                          written |-> <<<<"connected", 0>>>> \o OutputEvents(buffer)]),
                  [op |-> "GET /output", status |-> 200, termId |-> termId,
                   res |-> res])

\* TerminalService.ts:242-245: the close event of the request of the
\* response r (the client went away, or the response was ended)
RequestClosed(r) ==
    /\ r \in 1..Len(sseResponses)
    /\ ~sseResponses[r].closed
    /\ TerminalStep(activeTerminals,
                    OnClose(terminalOutputSseConnections, sseResponses[r].termId, r),
                    ptyProcesses,
                    [sseResponses EXCEPT ![r].closed = TRUE],
                    [op |-> "request close", res |-> r])

NextTerminal ==
    \/ HandleStartTerminal
    \/ \E termId \in 1..MaxTerminals : PtyOnData(termId)
    \/ \E termId \in 1..MaxTerminals : PtyOnExit(termId)
    \/ \E termId \in 1..MaxTerminals : HandleTerminalOutputSse(termId)
    \/ \E r \in 1..MaxStreams : RequestClosed(r)

SpecTerminal == Init /\ [][NextTerminal]_vars

\* The requests of both endpoints and the connects they await.
NextHttp ==
    \/ \E claimed \in SessionIds : HandleSse(claimed, TRUE)
    \/ HandleSse(Undefined, FALSE)
    \/ \E t \in 1..MaxTransports, ok \in BOOLEAN : SseConnectSettled(t, ok) /\ Budget
    \/ \E sessionId \in SessionIds \cup PendingIds, threw \in BOOLEAN :
          HandleMessage(sessionId, threw)
    \/ \E provided \in SessionIds \cup PendingIds, initialize \in BOOLEAN :
          HandleMcp(provided, TRUE, initialize)
    \/ HandleMcp(Undefined, FALSE, FALSE)
    \/ \E t \in 1..MaxTransports, ok \in BOOLEAN : McpConnectSettled(t, ok) /\ Budget

SpecHttp == Init /\ [][NextHttp]_vars

\* The requests that construct transports, with their credentials, under
\* every environment.
NextAuth ==
    \/ \E req \in Requests :
          HandleSse(Undefined, Authenticated(allowedKeys, allowedTokens, req))
    \/ \E req \in Requests, initialize \in BOOLEAN :
          HandleMcp(Undefined, Authenticated(allowedKeys, allowedTokens, req), initialize)
    \/ \E t \in 1..MaxTransports, ok \in BOOLEAN : SseConnectSettled(t, ok) /\ Budget
    \/ \E t \in 1..MaxTransports, ok \in BOOLEAN : McpConnectSettled(t, ok) /\ Budget

SpecAuth == InitAuth /\ [][NextAuth]_vars

\* The configurations the lifecycle specification reloads with.
LifecycleToolConfigs == {NoOverrides, DisablePing}

\* The reconciliation lifecycle: one call of updateBackendConnections at a
\* time, with backend failures.
Next ==
    \/ \E cfg \in ServerConfigs, tcfg \in LifecycleToolConfigs : Start(1, cfg, tcfg)
    \/ \E p \in Procs, failed \in SUBSET (1..(nextId - 1)) :
          CleanupSettled(p, failed) /\ faults' <= MaxFaults
    \/ \E p \in Procs, ok \in BOOLEAN : Handshake(p, ok) /\ faults' <= MaxFaults
    \/ \E p \in Procs : Retry(p)
    \/ \E p \in Procs, outcome \in Outcomes :
          ToolsListed(p, outcome) /\ faults' <= MaxFaults
    \/ \E p \in Procs, outcome \in Outcomes :
          ResourcesListed(p, outcome) /\ faults' <= MaxFaults
    \/ \E p \in Procs, outcome \in Outcomes :
          PromptsListed(p, outcome) /\ faults' <= MaxFaults

Spec == Init /\ [][Next]_vars

\* Routing: reloads with every tool config, requests handled at any time
\* (also while a call of updateBackendConnections is suspended).
RoutingServerConfigs == {CfgAB, CfgC}

NextRouting ==
    \/ \E cfg \in RoutingServerConfigs, tcfg \in ToolConfigs : Start(1, cfg, tcfg)
    \/ \E p \in Procs, failed \in SUBSET (1..(nextId - 1)) :
          CleanupSettled(p, failed) /\ faults' <= MaxRoutingFaults
    \/ \E p \in Procs, ok \in BOOLEAN : Handshake(p, ok) /\ faults' <= MaxRoutingFaults
    \/ \E p \in Procs : Retry(p)
    \/ \E p \in Procs, outcome \in Outcomes :
          ToolsListed(p, outcome) /\ faults' <= MaxRoutingFaults
    \/ \E p \in Procs, outcome \in Outcomes :
          ResourcesListed(p, outcome) /\ faults' <= MaxRoutingFaults
    \/ \E p \in Procs, outcome \in Outcomes :
          PromptsListed(p, outcome) /\ faults' <= MaxRoutingFaults
    \/ HandleListTools /\ UNCHANGED observed
    \/ \E name \in RequestNames : HandleCallTool(name) /\ UNCHANGED observed

SpecRouting == Init /\ [][NextRouting]_vars

\* Requests handled while a call of updateBackendConnections is suspended,
\* each leaving a record of the map it read.
NextObserve ==
    \/ \E cfg \in RoutingServerConfigs : Start(1, cfg, NoOverrides)
    \/ \E p \in Procs, failed \in SUBSET (1..(nextId - 1)) :
          CleanupSettled(p, failed) /\ faults' <= MaxRoutingFaults
    \/ \E p \in Procs, ok \in BOOLEAN : Handshake(p, ok) /\ faults' <= MaxRoutingFaults
    \/ \E p \in Procs : Retry(p)
    \/ \E p \in Procs, outcome \in Outcomes :
          ToolsListed(p, outcome) /\ faults' <= MaxRoutingFaults
    \/ \E p \in Procs, outcome \in Outcomes :
          ResourcesListed(p, outcome) /\ faults' <= MaxRoutingFaults
    \/ \E p \in Procs, outcome \in Outcomes :
          PromptsListed(p, outcome) /\ faults' <= MaxRoutingFaults
    \/ HandleListTools /\ Observe("tools", toolToClientMap)
    \/ \E name \in RequestNames :
          HandleCallTool(name) /\ Observe("tools", toolToClientMap)

SpecObserve == Init /\ [][NextObserve]_vars

\* The state export and the prompt and resource requests, handled at any
\* time.
NextRequests ==
    \/ \E cfg \in RoutingServerConfigs, tcfg \in LifecycleToolConfigs :
          Start(1, cfg, tcfg)
    \/ \E p \in Procs, failed \in SUBSET (1..(nextId - 1)) :
          CleanupSettled(p, failed) /\ faults' <= MaxRoutingFaults
    \/ \E p \in Procs, ok \in BOOLEAN : Handshake(p, ok) /\ faults' <= MaxRoutingFaults
    \/ \E p \in Procs : Retry(p)
    \/ \E p \in Procs, outcome \in Outcomes :
          ToolsListed(p, outcome) /\ faults' <= MaxRoutingFaults
    \/ \E p \in Procs, outcome \in Outcomes :
          ResourcesListed(p, outcome) /\ faults' <= MaxRoutingFaults
    \/ \E p \in Procs, outcome \in Outcomes :
          PromptsListed(p, outcome) /\ faults' <= MaxRoutingFaults
    \/ HandleProxyState /\ UNCHANGED observed
    \/ \E params \in PromptParams : HandleGetPrompt(params) /\ UNCHANGED observed
    \/ \E params \in ResourceParams : HandleReadResource(params) /\ UNCHANGED observed

SpecRequests == Init /\ [][NextRequests]_vars

\* Backends that list the same resource uri or prompt name, and the requests
\* for resources and prompts.
SharedServerConfigs == {CfgAB, CfgBC, CfgCA}

NextShared ==
    \/ \E cfg \in SharedServerConfigs : Start(1, cfg, NoOverrides)
    \/ \E p \in Procs, failed \in SUBSET (1..(nextId - 1)) :
          CleanupSettled(p, failed) /\ faults' <= MaxRoutingFaults
    \/ \E p \in Procs, ok \in BOOLEAN : Handshake(p, ok) /\ faults' <= MaxRoutingFaults
    \/ \E p \in Procs : Retry(p)
    \/ \E p \in Procs, outcome \in Outcomes :
          ToolsListed(p, outcome) /\ faults' <= MaxRoutingFaults
    \/ \E p \in Procs, outcome \in Outcomes :
          ResourcesListed(p, outcome) /\ faults' <= MaxRoutingFaults
    \/ \E p \in Procs, outcome \in Outcomes :
          PromptsListed(p, outcome) /\ faults' <= MaxRoutingFaults
    \/ HandleListPrompts /\ UNCHANGED observed
    \/ HandleListResources /\ UNCHANGED observed
    \/ \E params \in PromptParams : HandleGetPrompt(params) /\ UNCHANGED observed
    \/ \E params \in ResourceParams : HandleReadResource(params) /\ UNCHANGED observed

SpecShared == Init /\ [][NextShared]_vars

\* The fan-out of list-resource-templates over what is connected.
NextTemplates ==
    \/ \E cfg \in RoutingServerConfigs : Start(1, cfg, NoOverrides)
    \/ \E p \in Procs, failed \in SUBSET (1..(nextId - 1)) :
          CleanupSettled(p, failed) /\ faults' <= MaxRoutingFaults
    \/ \E p \in Procs, ok \in BOOLEAN : Handshake(p, ok) /\ faults' <= MaxRoutingFaults
    \/ \E p \in Procs : Retry(p)
    \/ \E p \in Procs, outcome \in Outcomes :
          ToolsListed(p, outcome) /\ faults' <= MaxRoutingFaults
    \/ \E p \in Procs, outcome \in Outcomes :
          ResourcesListed(p, outcome) /\ faults' <= MaxRoutingFaults
    \/ \E p \in Procs, outcome \in Outcomes :
          PromptsListed(p, outcome) /\ faults' <= MaxRoutingFaults
    \/ \E params \in TemplateParams,
          outcome \in [1..Len(currentConnectedClients) -> Outcomes] :
          HandleListResourceTemplates(params, outcome) /\ UNCHANGED observed

SpecTemplates == Init /\ [][NextTemplates]_vars

\* Configurations that differ in the active field of a.
ActiveServerConfigs == {CfgAB, CfgOn, CfgFalse, CfgLower, CfgUpper}

NextActive ==
    \/ \E cfg \in ActiveServerConfigs : Start(1, cfg, NoOverrides)
    \/ \E p \in Procs, failed \in SUBSET (1..(nextId - 1)) :
          CleanupSettled(p, failed) /\ faults' <= MaxRoutingFaults
    \/ \E p \in Procs, ok \in BOOLEAN : Handshake(p, ok) /\ faults' <= MaxRoutingFaults
    \/ \E p \in Procs : Retry(p)
    \/ \E p \in Procs, outcome \in Outcomes :
          ToolsListed(p, outcome) /\ faults' <= MaxRoutingFaults
    \/ \E p \in Procs, outcome \in Outcomes :
          ResourcesListed(p, outcome) /\ faults' <= MaxRoutingFaults
    \/ \E p \in Procs, outcome \in Outcomes :
          PromptsListed(p, outcome) /\ faults' <= MaxRoutingFaults

SpecActive == Init /\ [][NextActive]_vars

\* The tool configs that rename: the handlers for list-tools and call-tool
\* under overrides whose exposed names are other tools' names.
RenameToolConfigs == {DisablePing, ShadowPing, SwapNames}

NextRenames ==
    \/ \E cfg \in RoutingServerConfigs, tcfg \in RenameToolConfigs : Start(1, cfg, tcfg)
    \/ \E p \in Procs, failed \in SUBSET (1..(nextId - 1)) :
          CleanupSettled(p, failed) /\ faults' <= MaxRoutingFaults
    \/ \E p \in Procs, ok \in BOOLEAN : Handshake(p, ok) /\ faults' <= MaxRoutingFaults
    \/ \E p \in Procs : Retry(p)
    \/ \E p \in Procs, outcome \in Outcomes :
          ToolsListed(p, outcome) /\ faults' <= MaxRoutingFaults
    \/ \E p \in Procs, outcome \in Outcomes :
          ResourcesListed(p, outcome) /\ faults' <= MaxRoutingFaults
    \/ \E p \in Procs, outcome \in Outcomes :
          PromptsListed(p, outcome) /\ faults' <= MaxRoutingFaults
    \/ HandleListTools /\ UNCHANGED observed
    \/ \E name \in RequestNames : HandleCallTool(name) /\ UNCHANGED observed

SpecRenames == Init /\ [][NextRenames]_vars

\* Backends whose names and tool names contain "--".
NameServerConfigs == {CfgXY, CfgY}

NextNames ==
    \/ \E cfg \in NameServerConfigs : Start(1, cfg, NoOverrides)
    \/ \E p \in Procs, failed \in SUBSET (1..(nextId - 1)) :
          CleanupSettled(p, failed) /\ faults' <= MaxRoutingFaults
    \/ \E p \in Procs, ok \in BOOLEAN : Handshake(p, ok) /\ faults' <= MaxRoutingFaults
    \/ \E p \in Procs : Retry(p)
    \/ \E p \in Procs, outcome \in Outcomes :
          ToolsListed(p, outcome) /\ faults' <= MaxRoutingFaults
    \/ \E p \in Procs, outcome \in Outcomes :
          ResourcesListed(p, outcome) /\ faults' <= MaxRoutingFaults
    \/ \E p \in Procs, outcome \in Outcomes :
          PromptsListed(p, outcome) /\ faults' <= MaxRoutingFaults
    \/ HandleListTools /\ UNCHANGED observed
    \/ HandleCallTool("x--y--z") /\ UNCHANGED observed

SpecNames == Init /\ [][NextNames]_vars

\* Calls of updateBackendConnections may overlap.
OverlapServerConfigs == {CfgAB, CfgC}

NextOverlap ==
    \/ \E p \in Procs, cfg \in OverlapServerConfigs : Start(p, cfg, NoOverrides)
    \/ \E p \in Procs, failed \in SUBSET (1..(nextId - 1)) :
          CleanupSettled(p, failed) /\ faults' <= MaxOverlapFaults
    \/ \E p \in Procs, ok \in BOOLEAN : Handshake(p, ok) /\ faults' <= MaxOverlapFaults
    \/ \E p \in Procs : Retry(p)
    \/ \E p \in Procs, outcome \in Outcomes :
          ToolsListed(p, outcome) /\ faults' <= MaxOverlapFaults
    \/ \E p \in Procs, outcome \in Outcomes :
          ResourcesListed(p, outcome) /\ faults' <= MaxOverlapFaults
    \/ \E p \in Procs, outcome \in Outcomes :
          PromptsListed(p, outcome) /\ faults' <= MaxOverlapFaults

SpecOverlap == Init /\ [][NextOverlap]_vars

\* The lifecycle with every request to a backend settled sooner or later,
\* by an answer or by a failure.
NextLive ==
    \/ \E cfg \in ServerConfigs : Start(1, cfg, NoOverrides)
    \/ \E p \in Procs, failed \in SUBSET (1..(nextId - 1)) :
          CleanupSettled(p, failed) /\ faults' <= MaxFaults
    \/ \E p \in Procs, ok \in BOOLEAN : Handshake(p, ok) /\ faults' <= MaxFaults
    \/ \E p \in Procs : Retry(p)
    \/ \E p \in Procs, outcome \in Outcomes :
          ToolsListed(p, outcome) /\ faults' <= MaxFaults
    \/ \E p \in Procs, outcome \in Outcomes :
          ResourcesListed(p, outcome) /\ faults' <= MaxFaults
    \/ \E p \in Procs, outcome \in Outcomes :
          PromptsListed(p, outcome) /\ faults' <= MaxFaults

\* Every callback whose promise is settled is run by the event loop.
SpecLive == Init /\ [][NextLive]_vars /\ WF_vars(NextLive)

\* A backend that never answers a discovery call: the request neither
\* returns nor fails.
Hung == "a"

\* The discovery call the call p is suspended at will be settled.
Answering(p) ==
    /\ pc[p] \in {"tools", "resources", "prompts"}
    /\ rc[p].list[rc[p].i].name # Hung

\* The lifecycle with the backend Hung never answering; every other request
\* to a backend is settled, handshakes and cleanups may fail.
NextStall ==
    \/ \E cfg \in ServerConfigs : Start(1, cfg, NoOverrides)
    \/ \E p \in Procs, failed \in SUBSET (1..(nextId - 1)) :
          CleanupSettled(p, failed) /\ faults' <= MaxFaults
    \/ \E p \in Procs, ok \in BOOLEAN : Handshake(p, ok) /\ faults' <= MaxFaults
    \/ \E p \in Procs : Retry(p)
    \/ \E p \in Procs : Answering(p) /\ ToolsListed(p, "ok")
    \/ \E p \in Procs : Answering(p) /\ ResourcesListed(p, "ok")
    \/ \E p \in Procs : Answering(p) /\ PromptsListed(p, "ok")

\* Every callback whose promise is settled is run by the event loop.
SpecStall == Init /\ [][NextStall]_vars /\ WF_vars(NextStall)

(***************************************************************************)
(* What the claims speak of.                                               *)
(***************************************************************************)
Maps == [tm |-> toolToClientMap, rm |-> resourceToClientMap,
         pm |-> promptToClientMap]

EmptyMaps == [tm |-> <<>>, rm |-> <<>>, pm |-> <<>>]

\* mcp-proxy.ts:155-184 run in one piece over `list' under the tool config
\* `toolConfig', the discovery calls in `failed' (pairs <<client id, kind>>)
\* failing and all others answering.
RECURSIVE AggregateFrom(_, _, _, _)
AggregateFrom(m, list, toolConfig, failed) ==
    IF list = <<>> THEN m
    ELSE LET c == Head(list)
             m1 == [tm |-> IF <<c.id, "tools">> \in failed THEN m.tm
                           ELSE RegisterTools(m.tm, c, BackendTools(c.name), toolConfig),
                    rm |-> IF <<c.id, "resources">> \in failed THEN m.rm
                           ELSE RegisterKeys(m.rm, c, BackendResources(c.name)),
                    pm |-> IF <<c.id, "prompts">> \in failed THEN m.pm
                           ELSE RegisterKeys(m.pm, c, BackendPrompts(c.name))]
         IN AggregateFrom(m1, Tail(list), toolConfig, failed)

Aggregate(list, toolConfig, failed) == AggregateFrom(EmptyMaps, list, toolConfig, failed)

Connected == SeqToSet(currentConnectedClients)

ConnectedNames == {c.name : c \in Connected}

AllIdle == \A p \in Procs : pc[p] = "idle"

\* The last call of updateBackendConnections by p has returned.
Completed(p) == pc[p] = "idle" /\ lg[p].n > 0

ActiveKeys(cfg) == {e.key : e \in SeqToSet(ActiveServersConfig(cfg))}

\* The owners recorded in the three maps.
Owners ==
    {toolToClientMap[i].client : i \in 1..Len(toolToClientMap)}
    \cup {resourceToClientMap[i].client : i \in 1..Len(resourceToClientMap)}
    \cup {promptToClientMap[i].client : i \in 1..Len(promptToClientMap)}

(***************************************************************************)
(* C1 (as claimed; refuted under SpecObserve).  A request handled while a  *)
(* call of updateBackendConnections is suspended reads either the complete *)
(* tool map from before that call or the complete tool map from after it:  *)
(* once the call has returned, the map that request read is one of the two.*)
(***************************************************************************)
C1_RequestSeesWholeGeneration ==
    (pc[1] = "idle" /\ observed.kind = "tools")
        => observed.map \in {lg[1].pre.tm, toolToClientMap}

(***************************************************************************)
(* C2 (as claimed; refuted under Spec).  In every reachable state the tool *)
(* map holds no tool the current tool config disables, no map entry is     *)
(* owned by a connection outside the connected list, and (no discovery     *)
(* call having failed) the three maps are the aggregation of the connected *)
(* list under the current tool config.                                     *)
(***************************************************************************)
C2_MapsFollowConnectedAndOverrides ==
    /\ \A i \in 1..Len(toolToClientMap) :
          IsEnabled(currentToolConfig, toolToClientMap[i].key)
    /\ Owners \subseteq Connected
    /\ faults = 0 => Maps = Aggregate(currentConnectedClients, currentToolConfig, {})

(***************************************************************************)
(* C3 (as claimed; refuted under SpecOverlap).  Once two overlapping calls *)
(* of updateBackendConnections have both returned, the connected list      *)
(* holds at most one connection per backend name, and every connection     *)
(* that was established and never cleaned up is in the connected list.     *)
(***************************************************************************)
C3_OverlapKeepsEveryConnection ==
    (AllIdle /\ \A p \in Procs : lg[p].overlapped)
        => /\ \A i, j \in 1..Len(currentConnectedClients) :
                 currentConnectedClients[i].name = currentConnectedClients[j].name
                     => i = j
           /\ \A id \in DOMAIN cleanupCalls :
                 cleanupCalls[id] = 0 => \E c \in Connected : c.id = id

\* The override of `toolConfig' for q sets the field f.
Sets(toolConfig, q, f) == q \in DOMAIN toolConfig /\ Has(toolConfig[q], f)

\* The override of `toolConfig' for q sets enabled = false.
Disables(toolConfig, q) ==
    Sets(toolConfig, q, "enabled") /\ toolConfig[q].enabled = FALSE

\* The tools/call request for the tool of a tool-map entry.
CallOf(entry) ==
    [to |-> entry.client, method |-> "tools/call", name |-> entry.toolInfo.name]

UnknownTool == Has(resp, "error") /\ resp.error = "UnknownTool" /\ sent = {}

(***************************************************************************)
(* C4 (as claimed; refuted under SpecRouting).  After a completed call of  *)
(* updateBackendConnections, for every tool-map entry Q whose override     *)
(* sets exposedName X: list-tools returns X at Q's place, and call-tool(X) *)
(* forwards exactly the tools/call for Q's tool to Q's owner.              *)
(***************************************************************************)
C4_OverrideRoundTrip ==
    Completed(1) =>
        \A i \in 1..Len(toolToClientMap) :
            LET q == toolToClientMap[i].key
            IN Sets(currentToolConfig, q, "exposedName") =>
                  /\ resp.op = "tools/list"
                        => resp.tools[i].name = currentToolConfig[q].exposedName
                  /\ (resp.op = "tools/call"
                        /\ resp.name = currentToolConfig[q].exposedName)
                        => sent = {CallOf(toolToClientMap[i])}

(***************************************************************************)
(* C5 (as claimed; refuted under SpecRouting).  After a completed call,    *)
(* for every qualified name Q whose override sets enabled = false the tool *)
(* map has no entry for Q and call-tool(Q) fails with the unknown-tool     *)
(* error, forwarding nothing.                                              *)
(***************************************************************************)
C5_DisabledToolUnknown ==
    Completed(1) =>
        \A q \in DOMAIN currentToolConfig :
            Disables(currentToolConfig, q) =>
               /\ ~MapHas(toolToClientMap, q)
               /\ (resp.op = "tools/call" /\ resp.name = q) => UnknownTool

(***************************************************************************)
(* C5 (amended; holds under SpecRouting).  After a completed call, for     *)
(* every qualified name Q whose override sets enabled = false: the tool    *)
(* map has no entry for Q, list-tools returns no entry with the schema of  *)
(* Q's tool, and call-tool(Q) forwards no request for Q's tool: it fails   *)
(* with the unknown-tool error unless Q is the exposed name of another,    *)
(* enabled tool, and then the call is forwarded for that tool.             *)
(***************************************************************************)
C5_DisabledToolNotReached ==
    Completed(1) =>
        \A q \in DOMAIN currentToolConfig :
            Disables(currentToolConfig, q) =>
               /\ ~MapHas(toolToClientMap, q)
               /\ resp.op = "tools/list" =>
                     \A c \in Connected : \A t \in SeqToSet(BackendTools(c.name)) :
                         c.name \o "--" \o t.name = q =>
                             \A j \in 1..Len(resp.tools) :
                                 resp.tools[j].inputSchema # t.inputSchema
               /\ (resp.op = "tools/call" /\ resp.name = q) =>
                     /\ \A msg \in sent : msg.to.name \o "--" \o msg.name # q
                     /\ \/ UnknownTool
                        \/ \E i \in 1..Len(toolToClientMap) :
                              /\ toolToClientMap[i].key # q
                              /\ Sets(currentToolConfig, toolToClientMap[i].key, "exposedName")
                              /\ currentToolConfig[toolToClientMap[i].key].exposedName = q
                              /\ sent = {CallOf(toolToClientMap[i])}

\* C5's case: a--ping is disabled, its backend is connected and its other
\* tool is registered, and call-tool("a--ping") was answered unknown-tool.
C5_Witness ==
    /\ Completed(1)
    /\ currentToolConfig = DisablePing
    /\ \E c \in Connected : c.name = "a"
    /\ MapHas(toolToClientMap, "a--echo")
    /\ resp.op = "tools/call" /\ resp.name = "a--ping" /\ UnknownTool

(***************************************************************************)
(* C6 (holds under SpecRouting).  Every call-tool whose name is the        *)
(* exposed name of a tool-map entry forwards exactly one request: a        *)
(* tools/call, to the client a tool-map entry with that exposed name       *)
(* records, carrying the name under which that backend lists the tool      *)
(* (the local name, from which the entry's qualified name is built).       *)
(***************************************************************************)
C6_CallToolForwardsOnce ==
    (resp.op = "tools/call"
       /\ \E i \in 1..Len(toolToClientMap) :
             ExposedName(currentToolConfig, toolToClientMap[i].key) = resp.name)
    => \E msg \in sent :
          /\ sent = {msg}
          /\ msg.method = "tools/call"
          /\ \E t \in SeqToSet(BackendTools(msg.to.name)) : t.name = msg.name
          /\ \E i \in 1..Len(toolToClientMap) :
                /\ ExposedName(currentToolConfig, toolToClientMap[i].key) = resp.name
                /\ toolToClientMap[i].client = msg.to
                /\ toolToClientMap[i].key = msg.to.name \o "--" \o msg.name

\* C6's case: call-tool with the exposed name "X" of a--echo was forwarded.
C6_Witness ==
    resp.op = "tools/call" /\ resp.name = "X" /\ sent # {}

(***************************************************************************)
(* C7 (as claimed; refuted under Spec).  When updateBackendConnections is  *)
(* called twice in a row with the same server config and tool config, the  *)
(* connected list and the three maps after the second call equal those     *)
(* after the first, and the second call performs no handshake and no       *)
(* cleanup.                                                                *)
(***************************************************************************)
SameConfigAgain ==
    /\ Completed(1)
    /\ lg[1].prev.done
    /\ lg[1].prev.cfg = lg[1].cfg
    /\ lg[1].prev.tcfg = lg[1].tcfg

C7_SecondCallChangesNothing ==
    SameConfigAgain =>
        /\ Service = lg[1].pre
        /\ lg[1].attempts = <<>>
        /\ lg[1].cleaned = <<>>

(***************************************************************************)
(* C7 (amended; holds under Spec).  In the second of two calls in a row    *)
(* with the same server config and tool config: no cleanup is invoked, no  *)
(* handshake is attempted for a backend the first call left connected, and *)
(* those connection objects stay; when every active backend of the config  *)
(* was connected after the first call, the second call attempts no         *)
(* handshake and leaves the connected list as it was; and when moreover    *)
(* the same discovery calls fail in both calls, the three maps after the   *)
(* second call equal those after the first.                                *)
(***************************************************************************)
C7_SecondCallIdempotent ==
    SameConfigAgain =>
        LET before == SeqToSet(lg[1].pre.cur)
            allConnected == ActiveKeys(lg[1].cfg) \subseteq {c.name : c \in before}
        IN /\ lg[1].cleaned = <<>>
           /\ \A k \in SeqToSet(lg[1].attempts) : k \notin {c.name : c \in before}
           /\ before \subseteq Connected
           /\ allConnected =>
                 /\ lg[1].attempts = <<>>
                 /\ currentConnectedClients = lg[1].pre.cur
           /\ (allConnected /\ lg[1].discFailed = lg[1].prev.discFailed) =>
                 Service = lg[1].pre

\* C7's case: the second call with the same configs has returned, both
\* backends of the config having been connected by the first.
C7_Witness ==
    /\ SameConfigAgain
    /\ lg[1].cfg = CfgAB
    /\ Len(lg[1].pre.cur) = 2
    /\ Len(toolToClientMap) > 0

(***************************************************************************)
(* C8 (holds under Spec).  For every connection in the connected list when *)
(* a call of updateBackendConnections starts whose name is in the new      *)
(* active set: the call attempts no handshake for that name and invokes no *)
(* cleanup of that connection, and once the call has returned the          *)
(* connected list holds that same connection object, and no other, for the *)
(* name.                                                                   *)
(***************************************************************************)
C8_KeptBackendsUntouched ==
    lg[1].n > 0 =>
        \A c \in SeqToSet(lg[1].pre.cur) :
            c.name \in ActiveKeys(lg[1].cfg) =>
               /\ c.name \notin SeqToSet(lg[1].attempts)
               /\ c \notin SeqToSet(lg[1].cleaned)
               /\ cleanupCalls[c.id] = 0
               /\ Completed(1) =>
                     /\ c \in Connected
                     /\ \A d \in Connected : d.name = c.name => d = c

\* C8's case: a call that kept b, removed a and connected c has returned.
C8_Witness ==
    /\ Completed(1)
    /\ \E c \in SeqToSet(lg[1].pre.cur) : c.name = "b" /\ c \in Connected
    /\ \E c \in SeqToSet(lg[1].cleaned) : c.name = "a"
    /\ "c" \in ConnectedNames

(***************************************************************************)
(* C9 (holds under Spec).  For every connection in the connected list when *)
(* a call starts whose name is absent from the new active set: its cleanup *)
(* has been invoked exactly once, and once the call has returned the name  *)
(* is absent from the connected list.  When cleanups failed, the call has  *)
(* nevertheless invoked the cleanup of every removed connection, attempted *)
(* the handshake of every added backend whose transport could be built,    *)
(* and rebuilt the maps from the new connected list.                       *)
(***************************************************************************)
C9_RemovedBackendsCleanedOnce ==
    lg[1].n > 0 =>
        LET active == ActiveServersConfig(lg[1].cfg)
            removed == {c \in SeqToSet(lg[1].pre.cur) : c.name \notin ActiveKeys(lg[1].cfg)}
        IN /\ \A c \in removed :
                 /\ cleanupCalls[c.id] = 1
                 /\ Completed(1) => c.name \notin ConnectedNames
           /\ (Completed(1) /\ lg[1].cleanupFailed # {}) =>
                 /\ \A e \in SeqToSet(KeysToAdd(lg[1].pre.cur, active)) :
                        TransportAvailable(e) => e.key \in SeqToSet(lg[1].attempts)
                 /\ ConnectedNames \subseteq ActiveKeys(lg[1].cfg)
                 /\ Maps = Aggregate(currentConnectedClients, lg[1].tcfg, lg[1].discFailed)

\* C9's case: a call that removed a and b, one cleanup failing, and then
\* connected c has returned.
C9_Witness ==
    /\ Completed(1)
    /\ Len(lg[1].cleaned) = 2
    /\ Cardinality(lg[1].cleanupFailed) = 1
    /\ ConnectedNames = {"c"}
    /\ Len(promptToClientMap) > 0

(***************************************************************************)
(* C10 (holds under Spec).  Once a call of updateBackendConnections has    *)
(* returned, the three maps are the aggregation of the whole connected     *)
(* list (kept and newly connected) under the tool config passed to that    *)
(* call: a tool of a connected backend whose tools/list was answered is in *)
(* the tool map exactly when that tool config does not disable it, every   *)
(* map entry is owned by a connection of the connected list, and none by a *)
(* removed connection.                                                     *)
(***************************************************************************)
C10_MapsRebuiltFromConnected ==
    Completed(1) =>
        /\ Maps = Aggregate(currentConnectedClients, lg[1].tcfg, lg[1].discFailed)
        /\ Owners \subseteq Connected
        /\ Owners \cap SeqToSet(lg[1].cleaned) = {}
        /\ \A c \in Connected :
              <<c.id, "tools">> \notin lg[1].discFailed =>
                 \A t \in SeqToSet(BackendTools(c.name)) :
                     MapHas(toolToClientMap, c.name \o "--" \o t.name)
                        <=> ~Disables(lg[1].tcfg, c.name \o "--" \o t.name)

\* C10's case: a--ping was in the tool map, a call that keeps backend a and
\* disables a--ping has returned, and a's other tool is registered again.
C10_Witness ==
    /\ Completed(1)
    /\ lg[1].tcfg = DisablePing
    /\ MapHas(lg[1].pre.tm, "a--ping")
    /\ \E c \in Connected : c.name = "a" /\ c \in SeqToSet(lg[1].pre.cur)
    /\ MapHas(toolToClientMap, "a--echo")
    /\ ~MapHas(toolToClientMap, "a--ping")

\* The servers the last call by 1 had to connect, in config order.
Added == KeysToAdd(lg[1].pre.cur, ActiveServersConfig(lg[1].cfg))

\* The handshake attempts of the last call by 1 for the server key k.
AttemptsFor(k) == {i \in 1..Len(lg[1].attempts) : lg[1].attempts[i] = k}

\* The retry delays the last call by 1 took for the server key k.
SleepsFor(k) == {i \in 1..Len(lg[1].sleeps) : lg[1].sleeps[i].key = k}

(***************************************************************************)
(* C11 (holds under SpecLive).  In a call of updateBackendConnections that *)
(* has returned, every added backend whose transport could be built got   *)
(* between 1 and 3 handshake attempts; all but the last failed; when the   *)
(* last failed too there were exactly 3 and the backend is absent from the *)
(* connected list; when it succeeded the backend is in the connected list; *)
(* and between two attempts there was one delay of 2500 ms, none after the *)
(* last.                                                                   *)
(***************************************************************************)
C11_ThreeAttempts ==
    Completed(1) =>
        \A e \in SeqToSet(Added) :
            TransportAvailable(e) =>
                LET at == AttemptsFor(e.key)
                    n == Cardinality(at)
                    last == CHOOSE i \in at : \A j \in at : j <= i
                IN /\ n \in 1..3
                   /\ \A i \in at : i # last => ~lg[1].outcomes[i]
                   /\ ~lg[1].outcomes[last] =>
                         n = 3 /\ e.key \notin ConnectedNames
                   /\ lg[1].outcomes[last] => e.key \in ConnectedNames
                   /\ Cardinality(SleepsFor(e.key)) = n - 1
                   /\ \A i \in SleepsFor(e.key) : lg[1].sleeps[i].ms = 2500

\* C11's case: the handshake of a failed three times, with two delays, and a
\* is not connected.
C11_Witness ==
    /\ Completed(1)
    /\ lg[1].cfg = CfgAB
    /\ Cardinality(AttemptsFor("a")) = 3
    /\ Cardinality(SleepsFor("a")) = 2
    /\ "a" \notin ConnectedNames

(***************************************************************************)
(* C12 (holds under SpecLive).  In a call that has returned, when an added *)
(* backend exhausted its retries, every other added backend whose          *)
(* transport could be built, before or after it in the config, had its     *)
(* handshake attempted, and each one whose handshake succeeded is in the   *)
(* connected list.                                                         *)
(***************************************************************************)
C12_OthersStillConnected ==
    Completed(1) =>
        \A f \in SeqToSet(Added) :
            (\A i \in AttemptsFor(f.key) : ~lg[1].outcomes[i]) /\ AttemptsFor(f.key) # {}
            => \A e \in SeqToSet(Added) :
                  (e # f /\ TransportAvailable(e)) =>
                      /\ AttemptsFor(e.key) # {}
                      /\ (\E i \in AttemptsFor(e.key) : lg[1].outcomes[i])
                            => \E c \in Connected :
                                  c.name = e.key /\ c \notin SeqToSet(lg[1].pre.cur)

\* C12's case: b, the first server to connect, exhausted its retries and c,
\* which follows it, is connected.
C12_Witness ==
    /\ Completed(1)
    /\ lg[1].cfg = CfgBC
    /\ lg[1].attempts = <<"b", "b", "b", "c">>
    /\ ConnectedNames = {"c"}

\* createClient builds no transport for the server entry e: its type is
\* none of the three kinds, or its url is none.
NoTransport(e) ==
    \/ e.type \notin {"sse", "stdio", "http"}
    \/ e.type \in {"sse", "http"} /\ e.url = "not a url"

(***************************************************************************)
(* C13 (holds under SpecLive).  For every active server of the config whose*)
(* transport kind is unrecognized or whose transport construction throws:  *)
(* the call attempts no handshake and takes no retry delay for it, it is   *)
(* absent from the connected list, and once the call has returned every    *)
(* added server that follows it and whose transport could be built had its *)
(* handshake attempted.                                                    *)
(***************************************************************************)
C13_NoTransportNoHandshake ==
    lg[1].n > 0 =>
        \A i \in 1..Len(Added) :
            NoTransport(Added[i]) =>
               /\ AttemptsFor(Added[i].key) = {}
               /\ SleepsFor(Added[i].key) = {}
               /\ Added[i].key \notin ConnectedNames
               /\ Completed(1) =>
                     \A j \in (i + 1)..Len(Added) :
                         ~NoTransport(Added[j]) => AttemptsFor(Added[j].key) # {}

\* C13's case: a call with CfgBC has returned; d, of an unknown transport
\* kind, was skipped and c, which follows it, is connected.
C13_Witness ==
    /\ Completed(1)
    /\ lg[1].cfg = CfgBC
    /\ \E i \in 1..Len(Added) : Added[i].key = "d" /\ NoTransport(Added[i])
    /\ lg[1].attempts = <<"b", "c">>
    /\ ConnectedNames = {"b", "c"}

\* What the backend of client c answers to the discovery call `kind', the
\* calls in `failed' being answered with an empty list.
AnswerOrEmpty(c, kind, failed) ==
    IF <<c.id, kind>> \in failed THEN <<>>
    ELSE CASE kind = "tools"     -> BackendTools(c.name)
           [] kind = "resources" -> BackendResources(c.name)
           [] kind = "prompts"   -> BackendPrompts(c.name)

\* mcp-proxy.ts:155-184 over `list', every discovery call answered, the ones
\* in `failed' with an empty list.
RECURSIVE AggregateAnswers(_, _, _, _)
AggregateAnswers(m, list, toolConfig, failed) ==
    IF list = <<>> THEN m
    ELSE LET c == Head(list)
             m1 == [tm |-> RegisterTools(m.tm, c, AnswerOrEmpty(c, "tools", failed),
                                         toolConfig),
                    rm |-> RegisterKeys(m.rm, c, AnswerOrEmpty(c, "resources", failed)),
                    pm |-> RegisterKeys(m.pm, c, AnswerOrEmpty(c, "prompts", failed))]
         IN AggregateAnswers(m1, Tail(list), toolConfig, failed)

\* The map that holds the entries of a kind.
MapOf(kind) ==
    CASE kind = "tools"     -> toolToClientMap
      [] kind = "resources" -> resourceToClientMap
      [] kind = "prompts"   -> promptToClientMap

Kinds == {"tools", "resources", "prompts"}

(***************************************************************************)
(* C14 (holds under Spec).  Once a call of updateBackendConnections in     *)
(* which discovery calls failed (method not found, or any other error) has *)
(* returned: a backend owns no map entry of a kind whose discovery call    *)
(* failed; what it lists of a kind whose call was answered is registered   *)
(* (tools unless disabled); and the three maps are exactly what they would *)
(* be had every failed call been answered with an empty list.              *)
(***************************************************************************)
C14_DiscoveryFailureIsolated ==
    Completed(1) =>
        /\ Maps = AggregateAnswers(EmptyMaps, currentConnectedClients, lg[1].tcfg,
                                   lg[1].discFailed)
        /\ \A c \in Connected : \A kind \in Kinds :
              IF <<c.id, kind>> \in lg[1].discFailed
              THEN \A i \in 1..Len(MapOf(kind)) : MapOf(kind)[i].client # c
              ELSE /\ kind = "resources" =>
                         \A uri \in SeqToSet(BackendResources(c.name)) :
                             MapHas(resourceToClientMap, uri)
                   /\ kind = "prompts" =>
                         \A name \in SeqToSet(BackendPrompts(c.name)) :
                             MapHas(promptToClientMap, name)
                   /\ kind = "tools" =>
                         \A t \in SeqToSet(BackendTools(c.name)) :
                             ~Disables(lg[1].tcfg, c.name \o "--" \o t.name)
                                 => \E i \in 1..Len(toolToClientMap) :
                                       /\ toolToClientMap[i].client = c
                                       /\ toolToClientMap[i].toolInfo = t

\* C14's case: a and b are connected, the tools/list of a failed and nothing
\* else; b's tool, a's prompt and the resources of both are registered.
C14_Witness ==
    /\ Completed(1)
    /\ ConnectedNames = {"a", "b"}
    /\ \E c \in Connected : c.name = "a" /\ lg[1].discFailed = {<<c.id, "tools">>}
    /\ MapKeys(toolToClientMap) = {"b--ping"}
    /\ MapKeys(promptToClientMap) = {"p1"}
    /\ MapKeys(resourceToClientMap) = {"r1", "r2"}

(***************************************************************************)
(* C15 (as claimed; refuted under SpecStall).  With backend a never        *)
(* answering its discovery calls and every other request settled, whenever *)
(* b is in the connected list, b's tool, resources and prompts (it lists   *)
(* none) are eventually registered, or b has left the connected list.      *)
(***************************************************************************)
C15_OthersEventuallyRegistered ==
    ("b" \in ConnectedNames)
        ~> \/ "b" \notin ConnectedNames
           \/ /\ \E i \in 1..Len(toolToClientMap) :
                    /\ toolToClientMap[i].key = "b--ping"
                    /\ toolToClientMap[i].client \in Connected
              /\ \A uri \in SeqToSet(BackendResources("b")) :
                    \E i \in 1..Len(resourceToClientMap) :
                       /\ resourceToClientMap[i].key = uri
                       /\ resourceToClientMap[i].client.name = "b"
                       /\ resourceToClientMap[i].client \in Connected

(***************************************************************************)
(* C16 (holds under SpecLive).  Every call of updateBackendConnections,    *)
(* whatever handshakes, cleanups and discovery calls fail in it, returns   *)
(* to its caller: a call that is under way leads to the call having        *)
(* returned normally.                                                      *)
(***************************************************************************)
C16_ReconcileReturns == (pc[1] # "idle") ~> Completed(1)

\* C16's case: a call in which a cleanup was rejected, a handshake failed and
\* a discovery call failed has returned.
C16_Witness ==
    /\ Completed(1)
    /\ lg[1].cleanupFailed # {}
    /\ \E i \in 1..Len(lg[1].outcomes) : ~lg[1].outcomes[i]
    /\ lg[1].discFailed # {}

(***************************************************************************)
(* C17 (holds under SpecRouting).  Once a call of updateBackendConnections *)
(* has returned, for every connected backend: when its tools/list was      *)
(* answered, the qualified name of each tool it lists is a key of the tool *)
(* map if and only if the tool config of the call has no override for that *)
(* name, or an override without an enabled field, or one whose enabled     *)
(* field is not false; and when its resources/list or prompts/list was     *)
(* answered, every uri or prompt name it lists is a key of the resource or *)
(* prompt map, whatever the tool config.                                   *)
(***************************************************************************)
C17_EnabledToolsRegistered ==
    Completed(1) =>
        \A c \in Connected :
            /\ <<c.id, "tools">> \notin lg[1].discFailed =>
                  \A t \in SeqToSet(BackendTools(c.name)) :
                      LET q == c.name \o "--" \o t.name
                      IN q \in MapKeys(toolToClientMap)
                         <=> \/ q \notin DOMAIN lg[1].tcfg
                             \/ "enabled" \notin DOMAIN lg[1].tcfg[q]
                             \/ lg[1].tcfg[q].enabled # FALSE
            /\ <<c.id, "resources">> \notin lg[1].discFailed =>
                  SeqToSet(BackendResources(c.name)) \subseteq MapKeys(resourceToClientMap)
            /\ <<c.id, "prompts">> \notin lg[1].discFailed =>
                  SeqToSet(BackendPrompts(c.name)) \subseteq MapKeys(promptToClientMap)

\* C17's case: under a tool config that disables a--ping and overrides
\* a--echo without an enabled field, a's tools were listed: a--echo is
\* registered, a--ping is not, and a's resource and prompt are.
C17_Witness ==
    /\ Completed(1)
    /\ lg[1].tcfg = TakeOverPing
    /\ \E c \in Connected : c.name = "a" /\ lg[1].discFailed = {}
    /\ "a--echo" \in MapKeys(toolToClientMap)
    /\ "a--ping" \notin MapKeys(toolToClientMap)
    /\ "r1" \in MapKeys(resourceToClientMap)
    /\ "p1" \in MapKeys(promptToClientMap)

(***************************************************************************)
(* C18 (as claimed; refuted under SpecRouting).  list-tools returns one    *)
(* entry per tool-map entry, in map order, and nothing else; an entry's    *)
(* name is the override's exposedName when the override sets one and the   *)
(* qualified name otherwise, its description the override's                *)
(* exposedDescription when the override sets one and the backend's         *)
(* otherwise, its input schema the backend's.                              *)
(***************************************************************************)
C18_ListToolsAnyOverride ==
    resp.op = "tools/list" =>
        /\ Len(resp.tools) = Len(toolToClientMap)
        /\ \A i \in 1..Len(toolToClientMap) :
              LET q == toolToClientMap[i].key
                  info == toolToClientMap[i].toolInfo
              IN /\ resp.tools[i].name =
                        IF Sets(currentToolConfig, q, "exposedName")
                        THEN currentToolConfig[q].exposedName ELSE q
                 /\ resp.tools[i].description =
                        IF Sets(currentToolConfig, q, "exposedDescription")
                        THEN currentToolConfig[q].exposedDescription
                        ELSE info.description
                 /\ resp.tools[i].inputSchema = info.inputSchema

(***************************************************************************)
(* C18 (amended; holds under SpecRouting).  list-tools returns one entry   *)
(* per tool-map entry, in map order, and nothing else; an entry's name is  *)
(* the override's exposedName when the override sets a non-empty one and   *)
(* the qualified name otherwise, its description the override's            *)
(* exposedDescription when the override sets a non-empty one and the       *)
(* backend's otherwise, its input schema the backend's.                    *)
(***************************************************************************)
C18_ListToolsEntries ==
    resp.op = "tools/list" =>
        /\ Len(resp.tools) = Len(toolToClientMap)
        /\ \A i \in 1..Len(toolToClientMap) :
              LET q == toolToClientMap[i].key
                  info == toolToClientMap[i].toolInfo
              IN /\ resp.tools[i].name =
                        IF Sets(currentToolConfig, q, "exposedName")
                           /\ currentToolConfig[q].exposedName # ""
                        THEN currentToolConfig[q].exposedName ELSE q
                 /\ resp.tools[i].description =
                        IF Sets(currentToolConfig, q, "exposedDescription")
                           /\ currentToolConfig[q].exposedDescription # ""
                        THEN currentToolConfig[q].exposedDescription
                        ELSE info.description
                 /\ resp.tools[i].inputSchema = info.inputSchema

\* C18's case: list-tools answered with a--echo under its exposed name and
\* description and with b--ping, whose override sets empty strings, under its
\* qualified name and the backend's description.
C18_Witness ==
    /\ resp.op = "tools/list"
    /\ currentToolConfig = DisablePing
    /\ Len(resp.tools) = 2
    /\ resp.tools[1].name = "X" /\ resp.tools[1].description = "renamed"
    /\ resp.tools[1].inputSchema = "schema of a echo"
    /\ resp.tools[2].name = "b--ping" /\ resp.tools[2].description = "b ping"

(***************************************************************************)
(* C19 (as claimed; refuted under SpecRequests).  The state export lists   *)
(* one entry per tool-map entry (the routable tools); each entry carries   *)
(* the exposed name of its tool, the name list-tools returns for it, the   *)
(* name of the owning backend, and the tool's description (the backend's   *)
(* or the exposed one).                                                    *)
(***************************************************************************)
C19_StateExportExposedNames ==
    resp.op = "state" =>
        /\ Len(resp.tools) = Len(toolToClientMap)
        /\ \A i \in 1..Len(toolToClientMap) :
              /\ resp.tools[i].name = ListToolsResult[i].name
              /\ resp.tools[i].serverName = toolToClientMap[i].client.name
              /\ resp.tools[i].description \in
                    {toolToClientMap[i].toolInfo.description,
                     ListToolsResult[i].description}

\* The place of the key k in the map m.
IndexOf(m, k) == (CHOOSE i \in 1..Len(m) : m[i].key = k)

(***************************************************************************)
(* C20 (holds under SpecRequests).  A get-prompt whose name is a key of    *)
(* the prompt map, and a read-resource whose uri is a key of the resource  *)
(* map, forwards exactly one request: the same method with the same        *)
(* params, to the client the map records for the key.  With a key absent   *)
(* from the map the request fails with the unknown-prompt or               *)
(* unknown-resource error and nothing is forwarded.  Handling either       *)
(* request changes no state of the proxy.                                  *)
(***************************************************************************)
C20_PromptAndResourceRouting ==
    /\ [](/\ resp.op = "prompts/get" =>
               IF resp.params.name \in MapKeys(promptToClientMap)
               THEN /\ ~Has(resp, "error")
                    /\ sent = {[to |-> promptToClientMap[
                                          IndexOf(promptToClientMap, resp.params.name)].client,
                                method |-> "prompts/get", params |-> resp.params]}
               ELSE Has(resp, "error") /\ resp.error = "UnknownPrompt" /\ sent = {}
          /\ resp.op = "resources/read" =>
               IF resp.params.uri \in MapKeys(resourceToClientMap)
               THEN /\ ~Has(resp, "error")
                    /\ sent = {[to |-> resourceToClientMap[
                                          IndexOf(resourceToClientMap, resp.params.uri)].client,
                                method |-> "resources/read", params |-> resp.params]}
               ELSE Has(resp, "error") /\ resp.error = "UnknownResource" /\ sent = {})
    /\ [][resp'.op \in {"prompts/get", "resources/read"} => UNCHANGED proxyVars]_vars

\* C20's case: a and b are connected and a get-prompt for p1, with its
\* arguments, was forwarded to a.
C20_Witness ==
    /\ resp.op = "prompts/get"
    /\ resp.params = [name |-> "p1", arguments |-> "args"]
    /\ "b" \in ConnectedNames
    /\ \E msg \in sent : msg.to.name = "a" /\ msg.to \in Connected

(***************************************************************************)
(* C21 (as claimed; refuted under SpecNames).  For any two different       *)
(* (backend name, local tool name) pairs among the connected backends the  *)
(* qualified names differ, and once a call of updateBackendConnections in  *)
(* which no discovery call failed has returned, every tool a connected     *)
(* backend lists has a tool-map entry owned by that backend.               *)
(***************************************************************************)
C21_QualifiedNamesDistinct ==
    /\ \A c1, c2 \in Connected :
          \A t1 \in SeqToSet(BackendTools(c1.name)),
             t2 \in SeqToSet(BackendTools(c2.name)) :
              <<c1.name, t1.name>> # <<c2.name, t2.name>>
                  => QualifiedName(c1.name, t1.name) # QualifiedName(c2.name, t2.name)
    /\ (Completed(1) /\ lg[1].discFailed = {}) =>
          \A c \in Connected : \A t \in SeqToSet(BackendTools(c.name)) :
              \E i \in 1..Len(toolToClientMap) :
                  /\ toolToClientMap[i].client = c
                  /\ toolToClientMap[i].toolInfo = t

\* What the backend named n lists of a kind.
Listed(kind, n) ==
    CASE kind = "resources" -> SeqToSet(BackendResources(n))
      [] kind = "prompts"   -> SeqToSet(BackendPrompts(n))
      [] kind = "tools"     -> {t.name : t \in SeqToSet(BackendTools(n))}

\* The places in the connected list of the backends that list the key k of
\* a kind and answered the discovery call of the last call of
\* updateBackendConnections by 1.
Listers(kind, k) ==
    {i \in 1..Len(currentConnectedClients) :
        /\ k \in Listed(kind, currentConnectedClients[i].name)
        /\ <<currentConnectedClients[i].id, kind>> \notin lg[1].discFailed}

\* The last of them.
LastLister(kind, k) ==
    currentConnectedClients[CHOOSE i \in Listers(kind, k) :
                                \A j \in Listers(kind, k) : j <= i]

(***************************************************************************)
(* C22 (holds under SpecShared).  Once a call of updateBackendConnections  *)
(* has returned, for every resource uri and every prompt name that         *)
(* connected backends list: the map entry of the key is owned by the one   *)
(* that comes last in the connected list (kept backends first, then the    *)
(* newly connected); list-resources and list-prompts show the key once;    *)
(* and read-resource and get-prompt for the key forward one request, to    *)
(* that backend.                                                           *)
(***************************************************************************)
C22_LastWriterWins ==
    Completed(1) =>
        \A kind \in {"resources", "prompts"} :
            \A k \in {"r1", "r2", "p1"} :
                Listers(kind, k) # {} =>
                   /\ \E i \in 1..Len(MapOf(kind)) :
                         /\ MapOf(kind)[i].key = k
                         /\ MapOf(kind)[i].client = LastLister(kind, k)
                   /\ resp.op = "resources/list" /\ kind = "resources" =>
                         Cardinality({i \in 1..Len(resp.resources) :
                                         resp.resources[i].uri = k}) = 1
                   /\ resp.op = "prompts/list" /\ kind = "prompts" =>
                         Cardinality({i \in 1..Len(resp.prompts) :
                                         resp.prompts[i].name = k}) = 1
                   /\ (resp.op = "resources/read" /\ kind = "resources"
                          /\ resp.params.uri = k) =>
                         sent = {[to |-> LastLister(kind, k),
                                  method |-> "resources/read", params |-> resp.params]}
                   /\ (resp.op = "prompts/get" /\ kind = "prompts"
                          /\ resp.params.name = k) =>
                         sent = {[to |-> LastLister(kind, k),
                                  method |-> "prompts/get", params |-> resp.params]}

\* C22's case: b was kept and a newly connected, both list r1, and a
\* read-resource for r1 was forwarded to a.
C22_Witness ==
    /\ Completed(1)
    /\ Len(currentConnectedClients) = 2
    /\ currentConnectedClients[1].name = "b"
    /\ currentConnectedClients[1] \in SeqToSet(lg[1].pre.cur)
    /\ currentConnectedClients[2].name = "a"
    /\ Listers("resources", "r1") = {1, 2}
    /\ resp.op = "resources/read" /\ resp.params.uri = "r1"
    /\ \E msg \in sent : msg.to = currentConnectedClients[2]

\* The entries of a map without the identity of the owning connection and
\* without their order: key, owner's name, and the tool definition if any.
NamedEntries(m) ==
    {[key |-> m[i].key, owner |-> m[i].client.name,
      toolInfo |-> IF Has(m[i], "toolInfo") THEN <<m[i].toolInfo>> ELSE <<>>] :
        i \in 1..Len(m)}

NamedMaps(maps) ==
    [tm |-> NamedEntries(maps.tm), rm |-> NamedEntries(maps.rm),
     pm |-> NamedEntries(maps.pm)]

\* mcp-proxy.ts:116-149 from the state after construction, every handshake
\* succeeding: the connected list is the active entries of cfg that have a
\* transport, in the order of cfg.
RECURSIVE FreshClients(_, _)
FreshClients(entries, id) ==
    IF entries = <<>> THEN <<>>
    ELSE IF TransportAvailable(Head(entries))
         THEN <<[id |-> id, name |-> Head(entries).key]>>
                  \o FreshClients(Tail(entries), id + 1)
         ELSE FreshClients(Tail(entries), id)

FreshList(cfg) == FreshClients(ActiveServersConfig(cfg), 1)

(***************************************************************************)
(* C23 (as claimed; refuted under SpecShared).  Two runs that end a call   *)
(* of updateBackendConnections with the same set of connected backend      *)
(* names, the same discovery responses and the same overrides end with the *)
(* same tool, resource and prompt maps.  One of the two runs is the run    *)
(* that makes the call first thing after construction with every handshake *)
(* and discovery call succeeding; the other is the run that reached the    *)
(* current state.  The maps are compared by key, owner's name and tool     *)
(* definition, whatever the order of their entries.                        *)
(***************************************************************************)
C23_MapsDependOnInputsOnly ==
    (/\ Completed(1)
     /\ lg[1].discFailed = {}
     /\ ConnectedNames = {c.name : c \in SeqToSet(FreshList(lg[1].cfg))})
        => NamedMaps(Maps) = NamedMaps(Aggregate(FreshList(lg[1].cfg), lg[1].tcfg, {}))

\* The transports of a registry that were hit by an error, a disconnect or
\* a failed connect, or were replaced.
Gone(kind) ==
    {t \in 1..Len(transports) :
        /\ transports[t].kind = kind
        /\ \/ t \in DOMAIN unregistered
           \/ transports[t].closed
           \/ transports[t].connect = "failed"}

(***************************************************************************)
(* C24 (holds under SpecSse).  A GET /sse that passes authentication and   *)
(* claims a session id that is registered takes the transport registered   *)
(* under that id out of the registry and closes it, and registers the new  *)
(* transport under an id that differs from the claimed one and that no     *)
(* transport had before; a POST /message to the id of a replaced transport *)
(* is answered 404 (no active session) from then on.                       *)
(***************************************************************************)
C24_ClaimedSessionReplaced ==
    /\ [][(/\ resp'.op = "GET /sse"
           /\ resp'.status = 200
           /\ resp'.claimed \in DOMAIN sseTransports)
            => LET old == sseTransports[resp'.claimed]
                   new == resp'.t
                   id  == transports'[new].sessionId
               IN /\ resp'.claimed \notin DOMAIN sseTransports'
                  /\ \A k \in DOMAIN sseTransports' : sseTransports'[k] # old
                  /\ transports'[old].closed
                  /\ new \notin 1..Len(transports)
                  /\ id # resp'.claimed
                  /\ id \notin DOMAIN sseTransports
                  /\ \A u \in 1..Len(transports) : transports[u].sessionId # id
                  /\ id \in DOMAIN sseTransports'
                  /\ sseTransports'[id] = new]_vars
    /\ [](resp.op = "POST /message" =>
             \A t \in DOMAIN unregistered :
                 (unregistered[t] = "replaced"
                     /\ transports[t].sessionId = resp.sessionId)
                     => resp.status = 404 /\ resp.handledBy = 0)

\* C24's case: a session was replaced by a connection that claimed its id,
\* the new session is registered, and a message posted to the old id was
\* answered 404.
C24_Witness ==
    /\ resp.op = "POST /message"
    /\ resp.status = 404
    /\ \E t \in DOMAIN unregistered :
          /\ unregistered[t] = "replaced"
          /\ transports[t].sessionId = resp.sessionId
          /\ transports[t].closed
    /\ DOMAIN sseTransports # {}

\* The steps that end an event-stream session.
SseEnds == {"sse onerror", "sse onclose", "sse connect failed"}

(***************************************************************************)
(* C25 (holds under SpecSse).  The error handler, the close handler and a  *)
(* failed connect of an event-stream transport leave the registry without  *)
(* an entry for that transport's session id and with every other entry as  *)
(* it was; the id of a transport so ended is never registered again, and a *)
(* POST /message to it is answered 404.                                    *)
(***************************************************************************)
C25_SseSessionRemoved ==
    /\ [][resp'.op \in SseEnds
            => LET id == transports[resp'.t].sessionId
               IN /\ id \notin DOMAIN sseTransports'
                  /\ DOMAIN sseTransports' = DOMAIN sseTransports \ {id}
                  /\ \A k \in DOMAIN sseTransports' :
                        sseTransports'[k] = sseTransports[k]
                  /\ streamableHttpTransports' = streamableHttpTransports]_vars
    /\ [](\A t \in Gone("sse") :
             /\ transports[t].sessionId \notin DOMAIN sseTransports
             /\ (resp.op = "POST /message"
                    /\ resp.sessionId = transports[t].sessionId)
                    => resp.status = 404 /\ resp.handledBy = 0)

\* C25's case: one session was ended by a transport error while another
\* stayed registered, and a message posted to the ended one was answered 404.
C25_Witness ==
    /\ resp.op = "POST /message"
    /\ resp.status = 404
    /\ \E t \in DOMAIN unregistered :
          /\ unregistered[t] = "error"
          /\ transports[t].sessionId = resp.sessionId
    /\ \E k \in DOMAIN sseTransports : transports[sseTransports[k]].connect = "connected"

(***************************************************************************)
(* C26 (holds under SpecHttp).  A POST /message, or a request to /mcp that *)
(* passes authentication, that carries a session id its registry does not  *)
(* hold is answered 404: no transport is constructed, none handles the     *)
(* request, and both registries stay as they are.  One that carries a      *)
(* registered id is handed to the transport registered under that id, and  *)
(* no transport is constructed.                                            *)
(***************************************************************************)
C26_UnknownSessionRejected ==
    [][/\ (resp'.op = "POST /message" /\ resp'.sessionId # Undefined) =>
            IF resp'.sessionId \in DOMAIN sseTransports
            THEN /\ resp'.handledBy = sseTransports[resp'.sessionId]
                 /\ resp'.status # 404
                 /\ Len(transports') = Len(transports)
            ELSE /\ resp'.status = 404
                 /\ resp'.handledBy = 0
                 /\ UNCHANGED httpVars
       /\ (resp'.op = "/mcp" /\ resp'.status # 401 /\ resp'.provided # Undefined) =>
            IF resp'.provided \in DOMAIN streamableHttpTransports
            THEN /\ resp'.handledBy = streamableHttpTransports[resp'.provided]
                 /\ resp'.status # 404
                 /\ Len(transports') = Len(transports)
            ELSE /\ resp'.status = 404
                 /\ resp'.handledBy = 0
                 /\ UNCHANGED httpVars]_vars

\* C26's case: with a session registered in each registry, a request to /mcp
\* that carried the id of the event-stream session was answered 404.
C26_Witness ==
    /\ resp.op = "/mcp"
    /\ resp.status = 404
    /\ resp.provided \in DOMAIN sseTransports
    /\ DOMAIN streamableHttpTransports # {}

(***************************************************************************)
(* C27 (holds under SpecMcp).  A request to /mcp that passes               *)
(* authentication and carries no session id registers the transport it     *)
(* constructs under a temporary id in the step that starts the connect;    *)
(* and when onsessioninitialized fires for a transport that is registered  *)
(* under its temporary id, the registry afterwards maps the transport's    *)
(* session id to it and no longer holds the temporary id.                  *)
(***************************************************************************)
C27_TemporaryThenFinalId ==
    /\ [][(resp'.op = "/mcp" /\ resp'.status # 401 /\ resp'.provided = Undefined)
            => LET t == resp'.t
               IN /\ t = Len(transports) + 1
                  /\ TempId(t) \notin DOMAIN streamableHttpTransports
                  /\ TempId(t) \in DOMAIN streamableHttpTransports'
                  /\ streamableHttpTransports'[TempId(t)] = t
                  /\ transports'[t].connect = "pending"
                  /\ transports'[t].sessionId = Undefined]_vars
    /\ [][\A t \in 1..Len(transports) :
            (/\ transports[t].sessionId = Undefined
             /\ transports'[t].sessionId # Undefined
             /\ SessionGet(streamableHttpTransports, TempId(t)) = t)
              => /\ transports'[t].sessionId \in DOMAIN streamableHttpTransports'
                 /\ streamableHttpTransports'[transports'[t].sessionId] = t
                 /\ TempId(t) \notin DOMAIN streamableHttpTransports'
                 /\ transports'[t].sessionId # TempId(t)]_vars

\* C27's case: a transport that was never taken out of the registry has its
\* session id and is registered under it, next to one still under its
\* temporary id.
C27_Witness ==
    \E t, u \in 1..Len(transports) :
        /\ transports[t].sessionId # Undefined
        /\ t \notin DOMAIN unregistered
        /\ SessionGet(streamableHttpTransports, transports[t].sessionId) = t
        /\ SessionGet(streamableHttpTransports, TempId(u)) = u

\* The steps that end a request/response-stream session.
McpEnds == {"mcp onerror", "mcp onclose", "/mcp connect failed"}

(***************************************************************************)
(* C28 (as claimed; refuted under SpecMcp).  The error handler, the close  *)
(* handler and a failed connect of a request/response-stream transport     *)
(* leave the registry without any key, temporary or final, that maps to    *)
(* that transport, and with the entries of the other transports as they    *)
(* were.                                                                   *)
(***************************************************************************)
C28_McpSessionRemoved ==
    [][resp'.op \in McpEnds
         => LET t == resp'.t
            IN /\ \A k \in DOMAIN streamableHttpTransports' :
                     streamableHttpTransports'[k] # t
               /\ \A k \in DOMAIN streamableHttpTransports :
                     streamableHttpTransports[k] # t
                        => /\ k \in DOMAIN streamableHttpTransports'
                           /\ streamableHttpTransports'[k] = streamableHttpTransports[k]
               /\ DOMAIN streamableHttpTransports' \subseteq DOMAIN streamableHttpTransports
               /\ sseTransports' = sseTransports]_vars

(***************************************************************************)
(* C29 (as claimed; refuted under SpecMcp).  A transport that an error, a  *)
(* close, a failed connect or a replacement took out of its registry is    *)
(* never registered again under any id, and no session id is given to two  *)
(* transports.                                                             *)
(***************************************************************************)
C29_ClosedIsTerminal ==
    /\ \A t \in DOMAIN unregistered :
          t \notin Registered(sseTransports, streamableHttpTransports)
    /\ \A t, u \in 1..Len(transports) :
          (t # u /\ transports[t].sessionId # Undefined)
              => transports[t].sessionId # transports[u].sessionId

\* How many templates the backends before the i-th one of the connected list
\* contributed, under the outcomes of the last list-resource-templates.
RECURSIVE TemplatesBefore(_)
TemplatesBefore(i) ==
    IF i <= 1 THEN 0
    ELSE TemplatesBefore(i - 1)
         + (IF resp.outcome[i - 1] = "ok"
            THEN Len(BackendTemplates(currentConnectedClients[i - 1].name))
            ELSE 0)

(***************************************************************************)
(* C30 (holds under SpecTemplates).  list-resource-templates sends one     *)
(* resources/templates/list request to every backend of the connected      *)
(* list, and returns, in the order of the list, the templates of the       *)
(* backends that answered and nothing else: each with its uri template     *)
(* and with its name prefixed by "[backend name] ".  A backend whose        *)
(* request fails, with method-not-found or any other error, adds nothing,  *)
(* and the templates of the backends before and after it are returned.     *)
(***************************************************************************)
C30_TemplatesFanOut ==
    resp.op = "resources/templates/list" =>
        LET n == Len(currentConnectedClients)
        IN /\ \A i \in 1..n :
                 Cardinality({m \in sent : m.to = currentConnectedClients[i]}) = 1
           /\ \A m \in sent : /\ m.to \in Connected
                              /\ m.method = "resources/templates/list"
           /\ Len(resp.resourceTemplates) = TemplatesBefore(n + 1)
           /\ \A i \in 1..n :
                 resp.outcome[i] = "ok" =>
                    LET c == currentConnectedClients[i]
                    IN \A j \in 1..Len(BackendTemplates(c.name)) :
                          LET given == BackendTemplates(c.name)[j]
                              returned == resp.resourceTemplates[TemplatesBefore(i) + j]
                          IN /\ returned.uriTemplate = given.uriTemplate
                             /\ returned.name = "[" \o c.name \o "] " \o given.name

\* C30's case: with a and b connected, the request to a failed and b's two
\* templates were returned.
C30_Witness ==
    /\ resp.op = "resources/templates/list"
    /\ Len(currentConnectedClients) = 2
    /\ currentConnectedClients[1].name = "a"
    /\ currentConnectedClients[2].name = "b"
    /\ resp.outcome[1] = "error"
    /\ resp.outcome[2] = "ok"
    /\ Len(resp.resourceTemplates) = 2
    /\ resp.resourceTemplates[1].name = "[b] item"

\* The entries of the config of the last call of updateBackendConnections.
LastEntries == SeqToSet(lg[1].cfg)

\* What a call that has returned did with the entry e of its config:
\* nothing of it is connected, no handshake was attempted for it, and the
\* connection it had was handed to cleanup once.
TornDown(e) ==
    /\ e.key \notin ConnectedNames
    /\ e.key \notin SeqToSet(lg[1].attempts)
    /\ \A c \in SeqToSet(lg[1].pre.cur) :
          c.name = e.key => c \in SeqToSet(lg[1].cleaned) /\ cleanupCalls[c.id] = 1

\* ... or: the connection it had is still connected and was not cleaned, or
\* a handshake was attempted for it.
Wanted(e) ==
    /\ \A c \in SeqToSet(lg[1].pre.cur) :
          c.name = e.key => c \in Connected /\ c \notin SeqToSet(lg[1].cleaned)
    /\ ((\A c \in SeqToSet(lg[1].pre.cur) : c.name # e.key) /\ TransportAvailable(e))
          => e.key \in SeqToSet(lg[1].attempts)

\* active is false or the string 'false'
SaysFalse(e) ==
    /\ Has(e, "active")
    /\ \/ Has(e.active, "b") /\ e.active.b = FALSE
       \/ Has(e.active, "s") /\ e.active.s = "false"

\* active is false or a string that reads 'false' in any letter case
SaysFalseAnyCase(e) ==
    /\ Has(e, "active")
    /\ \/ Has(e.active, "b") /\ e.active.b = FALSE
       \/ Has(e.active, "s") /\ e.active.s \in {"false", "False", "FALSE"}

(***************************************************************************)
(* C31 (as claimed; refuted under SpecActive).  A call of                  *)
(* updateBackendConnections that has returned treated an entry of its      *)
(* config as excluded (tearing its connection down, attempting no          *)
(* handshake) exactly when the entry's active field is the boolean false   *)
(* or the string 'false', and as wanted in every other case.               *)
(***************************************************************************)
C31_ExcludedExactlyFalse ==
    Completed(1) =>
        \A e \in LastEntries : IF SaysFalse(e) THEN TornDown(e) ELSE Wanted(e)

(***************************************************************************)
(* C31 (amended; holds under SpecActive).  The same, with the string       *)
(* compared in any letter case: 'False' and 'FALSE' exclude the entry too. *)
(***************************************************************************)
C31_ExcludedFalseAnyCase ==
    Completed(1) =>
        \A e \in LastEntries : IF SaysFalseAnyCase(e) THEN TornDown(e) ELSE Wanted(e)

\* C31's case: a was connected, the next config set its active field to the
\* string 'False', and the call tore a down and kept b.
C31_Witness ==
    /\ Completed(1)
    /\ lg[1].cfg = CfgUpper
    /\ \E c \in SeqToSet(lg[1].pre.cur) :
          c.name = "a" /\ c \in SeqToSet(lg[1].cleaned) /\ cleanupCalls[c.id] = 1
    /\ \E c \in Connected : c.name = "b" /\ c \in SeqToSet(lg[1].pre.cur)

\* The place of the key k among the active entries of the config of the last
\* call of updateBackendConnections.
PlaceOf(k) ==
    LET active == ActiveServersConfig(lg[1].cfg)
    IN CHOOSE i \in 1..Len(active) : active[i].key = k

\* The handshake of the key that was attempted at place i of the log is
\* over: it succeeded, or it was attempted three times.
Settled(i) ==
    \/ lg[1].outcomes[i]
    \/ Cardinality({j \in 1..i : lg[1].attempts[j] = lg[1].attempts[i]}) = retries

\* The call is past createMcpClients.
Discovering == pc[1] \in {"tools", "resources", "prompts"} \/ Completed(1)

(***************************************************************************)
(* C32 (holds under SpecLive).  Within one call of                         *)
(* updateBackendConnections: while the cleanups of the removed backends    *)
(* have not settled no handshake has been attempted; the handshakes go key *)
(* by key in the order of the config, the next key only after the one      *)
(* before has connected or has been tried three times; and while a         *)
(* discovery call is out, or after, every added key whose transport could  *)
(* be built has connected or has been tried three times.                   *)
(***************************************************************************)
C32_PhasesInOrder ==
    /\ pc[1] = "cleanup" => lg[1].attempts = <<>>
    /\ pc[1] \in {"cleanup", "connect", "sleep"} => lg[1].discFailed = {}
    /\ \A i \in 1..Len(lg[1].attempts) : \A j \in 1..Len(lg[1].attempts) :
          i < j =>
             /\ PlaceOf(lg[1].attempts[i]) <= PlaceOf(lg[1].attempts[j])
             /\ lg[1].attempts[i] # lg[1].attempts[j] =>
                   \E m \in i..(j - 1) :
                       lg[1].attempts[m] = lg[1].attempts[i] /\ Settled(m)
    /\ Discovering =>
          \A e \in SeqToSet(ActiveServersConfig(lg[1].cfg)) :
              (TransportAvailable(e) /\ e.key \notin {c.name : c \in SeqToSet(lg[1].pre.cur)})
                  => \E i \in 1..Len(lg[1].attempts) :
                        /\ lg[1].attempts[i] = e.key
                        /\ Settled(i)
                        /\ \A j \in 1..Len(lg[1].attempts) :
                              lg[1].attempts[j] = e.key => j <= i

\* C32's case: a call removed c, then connected a at the first attempt and
\* gave b up after three, and is now past its handshakes.
C32_Witness ==
    /\ Discovering
    /\ Len(lg[1].cleaned) = 1
    /\ lg[1].attempts = <<"a", "b", "b", "b">>
    /\ lg[1].outcomes = <<TRUE, FALSE, FALSE, FALSE>>

(***************************************************************************)
(* C34 (as claimed; refuted under SpecLive).  Once createMcpClients has    *)
(* returned, every client whose handshake failed has been closed, the one  *)
(* of the last failed attempt of a backend that used up its attempts       *)
(* included; the clients left open are those of connected backends.        *)
(***************************************************************************)
C34_FailedHandlesClosed ==
    Discovering =>
        \A i \in 1..Len(lg[1].handles) :
            lg[1].handles[i].closed = ~lg[1].handles[i].connected

(***************************************************************************)
(* C33 (as claimed; refuted under SpecRequests).  No request is forwarded  *)
(* to a backend connection whose cleanup() has been invoked, the requests  *)
(* handled while the call of updateBackendConnections that invoked it is   *)
(* still suspended included.                                               *)
(***************************************************************************)
C33_NoForwardAfterCleanup ==
    \A m \in sent : cleanupCalls[m.to.id] = 0

(***************************************************************************)
(* C35 (as claimed; refuted under SpecRouting).  list-tools returns no     *)
(* name twice: two different entries of the tool map are listed under      *)
(* different names, whatever the overrides' exposed names are.             *)
(***************************************************************************)
C35_ListedNamesDistinct ==
    resp.op = "tools/list" =>
        \A i \in 1..Len(resp.tools) : \A j \in 1..Len(resp.tools) :
            i # j => resp.tools[i].name # resp.tools[j].name

\* The entries of the tool map, other than the one at place i, that are
\* exposed under the name q.
OthersExposedAs(i, q) ==
    {j \in 1..Len(toolToClientMap) \ {i} :
        ExposedName(currentToolConfig, toolToClientMap[j].key) = q}

(***************************************************************************)
(* C36 (holds under SpecRenames).  For every entry of the tool map whose   *)
(* override sets a non-empty exposed name other than its qualified name Q: *)
(* call-tool(Q) forwards nothing for that entry's tool; it fails with the  *)
(* unknown-tool error when no other entry is exposed as Q, and otherwise   *)
(* it is forwarded, once, for another entry that is exposed as Q.          *)
(***************************************************************************)
C36_QualifiedNameOfRenamedTool ==
    \A i \in 1..Len(toolToClientMap) :
        LET q == toolToClientMap[i].key
        IN (/\ ExposedName(currentToolConfig, q) # q
            /\ resp.op = "tools/call" /\ resp.name = q)
           => /\ CallOf(toolToClientMap[i]) \notin sent
              /\ OthersExposedAs(i, q) = {} => UnknownTool
              /\ OthersExposedAs(i, q) # {} =>
                    \E j \in OthersExposedAs(i, q) : sent = {CallOf(toolToClientMap[j])}

\* C36's case: a--echo is registered and exposed as X, and call-tool with
\* its qualified name was answered unknown-tool.
C36_Witness ==
    /\ currentToolConfig = DisablePing
    /\ MapHas(toolToClientMap, "a--echo")
    /\ resp.op = "tools/call" /\ resp.name = "a--echo" /\ UnknownTool

\* The request that constructed the transport t of /mcp has been answered:
\* the connect it awaited has settled and the handler has run to its end.
McpAnswered(t) ==
    /\ t \in 1..Len(transports)
    /\ transports[t].kind = "http"
    /\ transports[t].connect # "pending"

\* The registry of /mcp holds the temporary id of transport t.
McpTemporary(t) == TempId(t) \in DOMAIN streamableHttpTransports

(***************************************************************************)
(* C37 (as claimed; refuted under SpecMcpLive).  Once the request that     *)
(* constructed a transport of /mcp has been answered, the entry under the  *)
(* transport's temporary id is eventually gone from the registry: re-keyed *)
(* to the final id or removed.                                             *)
(***************************************************************************)
C37_TemporaryIdsSettle ==
    \A t \in 1..MaxTransports : McpAnswered(t) ~> ~McpTemporary(t)

\* The request carries an allowed bearer token or an allowed API key.
CarriesAllowed(req) ==
    \/ \E token \in allowedTokens :
          /\ StartsWithBearer(req.authorization)
          /\ Join(Trim(Tail(req.authorization))) = token
    \/ req.headerKey \in allowedKeys
    \/ req.queryKey \in allowedKeys

\* The step is the handling of the request req by GET /sse or by /mcp.
HandlesRequest(req) ==
    \/ HandleSse(Undefined, Authenticated(allowedKeys, allowedTokens, req))
    \/ \E initialize \in BOOLEAN :
          HandleMcp(Undefined, Authenticated(allowedKeys, allowedTokens, req), initialize)

(***************************************************************************)
(* C38 (holds under SpecAuth).  With authentication enabled, the handling  *)
(* of a request to GET /sse or to /mcp that carries neither an allowed     *)
(* bearer token nor an allowed API key answers 401 and leaves the          *)
(* transports constructed so far (none is added, none is connected) and    *)
(* both session registries as they were.                                   *)
(***************************************************************************)
C38_UnauthenticatedRejected ==
    [][\A req \in Requests :
          (/\ AuthEnabled(allowedKeys, allowedTokens)
           /\ ~CarriesAllowed(req)
           /\ HandlesRequest(req))
          => /\ resp'.status = 401
             /\ UNCHANGED <<transports, sseTransports, streamableHttpTransports>>]_vars

\* C38's case: with a key configured and a session of each endpoint
\* registered, a request was answered 401.
C38_Witness ==
    /\ allowedKeys # {}
    /\ DOMAIN sseTransports # {} /\ DOMAIN streamableHttpTransports # {}
    /\ resp.op \in {"GET /sse", "/mcp"} /\ resp.status = 401

\* The newest response of GET /:termId/output for the terminal, 0 when
\* there is none.
Newest(termId) ==
    LET rs == {r \in 1..Len(sseResponses) : sseResponses[r].termId = termId}
    IN IF rs = {} THEN 0 ELSE CHOOSE r \in rs : \A q \in rs : q <= r

\* The stream is open: not ended by the service, its request not closed.
Open(r) == ~sseResponses[r].writableEnded /\ ~sseResponses[r].closed

(***************************************************************************)
(* C39 (as claimed; refuted under SpecTerminal).  For every live terminal  *)
(* whose newest output stream replaced an earlier one and is open: the     *)
(* output registry maps the terminal's id to that newest stream and        *)
(* nothing is held back in the terminal's buffer, whatever happened to the *)
(* earlier stream's request since.                                         *)
(***************************************************************************)
C39_NewestStreamRegistered ==
    \A termId \in DOMAIN activeTerminals :
        (Newest(termId) > 1
           /\ \E r \in 1..(Newest(termId) - 1) : sseResponses[r].termId = termId
           /\ Open(Newest(termId)))
        => /\ SessionGet(terminalOutputSseConnections, termId) = Newest(termId)
           /\ activeTerminals[termId].initialOutputBuffer = <<>>
====
